---------------------------- MODULE Spec2Model ----------------------------
(***************************************************************************)
(* TransactionManager of the Cardano IoT SDK                               *)
(* (src/src/core/transaction_manager.cpp).                                 *)
(*                                                                         *)
(* uint64_t values are modelled by their representative closest to zero:   *)
(* a value v < 2^63 by the integer v, a value v >= 2^63 by v - 2^64 (a     *)
(* negative integer).  Addition and subtraction of representatives are     *)
(* exactly addition and subtraction modulo 2^64 as long as the results     *)
(* stay far from 2^63, which the amounts of the model do; the unsigned     *)
(* comparison is ULess / UGreater below.                                   *)
(***************************************************************************)
EXTENDS Integers, Sequences, FiniteSets, TLC

(***************************************************************************)
(* Bounds of the model                                                     *)
(***************************************************************************)
\* number of witnesses of one kind (signatures of sign_transaction, witnesses
\* of add_witness, signatures of add_multisig_signature) on one transaction
MaxWitnesses == 1
\* seconds the clock runs for
MaxElapsed == 31
\* number of submit_transaction calls counted by the statistics
MaxSubmits == 2
\* the epoch second at which the model starts
StartTime == 100

\* number of inputs and of outputs of a transaction handed to calculate_fee
MaxFeeItems == 2
\* number of UTXOs in a list handed to select_utxos
MaxAvailable == 3

(***************************************************************************)
(* Program constants                                                       *)
(***************************************************************************)
DefaultMinFeeA == 155381
DefaultMinFeeB == 44
DefaultMinUtxo == 1000000
FeeMargin == 200000
ContractExtraFee == 50000
TtlWindow == 3600
ConfirmDelay == 30
BaseSize == 200
InputSize == 150
OutputSize == 100
WitnessSize == 100
MockBaseAmount == 10000000
MockStepAmount == 5000000
MockUtxoCount == 3

(***************************************************************************)
(* Input domains                                                           *)
(***************************************************************************)
IdNames == <<"tx1", "tx2">>
TxIds == {IdNames[i] : i \in DOMAIN IdNames}
Addresses == {"addrA", "addrB"}
Token1 == "policy1.token1"
Token2 == "policy2.token2"
Strategies == {"LARGEST_FIRST", "SMALLEST_FIRST", "RANDOM", "OPTIMAL_FEE"}
EmptyTokens == <<>>

VARIABLES
    initialized_,     \* Impl::initialized_
    address_utxos_,   \* Impl::address_utxos_ : address -> sequence of UTXO
    fee_params_,      \* Impl::fee_params_
    utxo_strategy_,   \* Impl::utxo_strategy_
    confirmation_callback_,  \* Impl::confirmation_callback_ : TRUE when one is set
    transactions_,    \* Impl::transactions_ : tx_id -> stored Transaction
    stats_,           \* Impl::stats_
    held,             \* the Transaction objects the caller holds, by tx_id
    now,              \* the system clock, in seconds
    last              \* the call in progress or the last call, and what it returned

vars == <<initialized_, address_utxos_, fee_params_, utxo_strategy_,
          confirmation_callback_, transactions_, stats_, held, now, last>>

(***************************************************************************)
(* Unsigned 64-bit comparison on representatives                           *)
(***************************************************************************)
Wrapped(x) == x < 0

UGreater(a, b) ==
    IF Wrapped(a) = Wrapped(b) THEN a > b ELSE Wrapped(a)

ULess(a, b) == UGreater(b, a)

UGreaterEq(a, b) == ~ULess(a, b)

(***************************************************************************)
(* Sums over sequences and token maps                                      *)
(***************************************************************************)
RECURSIVE SumLovelace(_)
SumLovelace(s) ==
    IF s = <<>> THEN 0 ELSE Head(s).amount_lovelace + SumLovelace(Tail(s))

TokenOf(m, t) == IF t \in DOMAIN m THEN m[t] ELSE 0

RECURSIVE SumToken(_, _)
SumToken(s, t) ==
    IF s = <<>> THEN 0 ELSE TokenOf(Head(s).native_tokens, t) + SumToken(Tail(s), t)

RECURSIVE TokenKeys(_)
TokenKeys(s) ==
    IF s = <<>> THEN {} ELSE DOMAIN Head(s).native_tokens \cup TokenKeys(Tail(s))

\* the std::map<std::string, uint64_t> built by "m[token] += amount" over s
AccumulateTokens(s) == [t \in TokenKeys(s) |-> SumToken(s, t)]


(***************************************************************************)
(* Impl::create_mock_utxos: three UTXOs of 10, 15 and 20 ADA, the second   *)
(* one carrying the two mock native tokens.  The generated tx_hash is      *)
(* modelled by the position it is generated at.                            *)
(***************************************************************************)
MockHash == <<"mock0", "mock1", "mock2">>

\* a variant of the refresh that finds nothing at the address
create_mock_utxos_Nothing(address) == <<>>

create_mock_utxos(address) ==
    [k \in 1..MockUtxoCount |->
        [tx_hash |-> MockHash[k],
         output_index |-> k - 1,
         address |-> address,
         amount_lovelace |-> MockBaseAmount + (k - 1) * MockStepAmount,
         native_tokens |-> IF k - 1 = 1
                           THEN (Token1 :> 1000) @@ (Token2 :> 500)
                           ELSE EmptyTokens]]

(***************************************************************************)
(* Fee estimation                                                          *)
(***************************************************************************)
estimate_transaction_size(num_inputs, num_outputs, metadata_size) ==
    BaseSize + num_inputs * InputSize + num_outputs * OutputSize
        + num_inputs * WitnessSize + metadata_size

estimate_fee(num_inputs, num_outputs, metadata_size) ==
    fee_params_.min_fee_a
        + fee_params_.min_fee_b
            * estimate_transaction_size(num_inputs, num_outputs, metadata_size)

(***************************************************************************)
(* The same two functions on every argument a size_t can hold.  A 64-bit   *)
(* unsigned value is four 16-bit limbs, least significant first, and the   *)
(* arithmetic is arithmetic modulo 2^64 (size_t and uint64_t of an LP64    *)
(* build).                                                                 *)
(***************************************************************************)
Limb == 65536

U64Of(n) == <<n % Limb, (n \div Limb) % Limb, 0, 0>>

U64Zero == U64Of(0)

U64Max == <<Limb - 1, Limb - 1, Limb - 1, Limb - 1>>

\* a + b modulo 2^64
U64Add(a, b) ==
    LET s1 == a[1] + b[1]
        s2 == a[2] + b[2] + s1 \div Limb
        s3 == a[3] + b[3] + s2 \div Limb
        s4 == a[4] + b[4] + s3 \div Limb
    IN  <<s1 % Limb, s2 % Limb, s3 % Limb, s4 % Limb>>

\* a * k modulo 2^64, for a factor k below 2^15
U64Times(a, k) ==
    LET p1 == a[1] * k
        p2 == a[2] * k + p1 \div Limb
        p3 == a[3] * k + p2 \div Limb
        p4 == a[4] * k + p3 \div Limb
    IN  <<p1 % Limb, p2 % Limb, p3 % Limb, p4 % Limb>>

U64Less(a, b) ==
    \E i \in 1..4 : a[i] < b[i] /\ \A j \in (i + 1)..4 : a[j] = b[j]

U64LessEq(a, b) == a = b \/ U64Less(a, b)

estimate_transaction_size_u64(num_inputs, num_outputs, metadata_size) ==
    U64Add(U64Add(U64Add(U64Add(U64Of(BaseSize),
                                U64Times(num_inputs, InputSize)),
                         U64Times(num_outputs, OutputSize)),
                  U64Times(num_inputs, WitnessSize)),
           metadata_size)

\* estimate_fee on the parameters the manager was initialized with
estimate_fee_u64_Defaults(num_inputs, num_outputs, metadata_size) ==
    U64Add(U64Of(DefaultMinFeeA),
           U64Times(estimate_transaction_size_u64(num_inputs, num_outputs,
                                                  metadata_size),
                    DefaultMinFeeB))

estimate_fee_u64(num_inputs, num_outputs, metadata_size) ==
    U64Add(U64Of(fee_params_.min_fee_a),
           U64Times(estimate_transaction_size_u64(num_inputs, num_outputs,
                                                  metadata_size),
                    fee_params_.min_fee_b))

(***************************************************************************)
(* Impl::select_utxos_impl.  std::sort is not stable and std::shuffle is   *)
(* random, so the candidate order is any permutation the comparator (or    *)
(* the shuffle) allows; the loop then takes the shortest sufficient        *)
(* prefix, or every candidate when no prefix is sufficient.                *)
(***************************************************************************)
Permutations_(n) ==
    {p \in [1..n -> 1..n] : \A i, j \in 1..n : i # j => p[i] # p[j]}

\* a comparator whose OPTIMAL_FEE puts the smallest amount first
Precedes_OptimalSmallest(strategy, a, b) ==
    CASE strategy = "LARGEST_FIRST"  -> UGreater(a.amount_lovelace, b.amount_lovelace)
      [] strategy = "SMALLEST_FIRST" -> ULess(a.amount_lovelace, b.amount_lovelace)
      [] strategy = "OPTIMAL_FEE"    -> ULess(a.amount_lovelace, b.amount_lovelace)
      [] OTHER                        -> FALSE

Precedes(strategy, a, b) ==
    CASE strategy = "LARGEST_FIRST"  -> UGreater(a.amount_lovelace, b.amount_lovelace)
      [] strategy = "SMALLEST_FIRST" -> ULess(a.amount_lovelace, b.amount_lovelace)
      [] strategy = "OPTIMAL_FEE"    -> UGreater(a.amount_lovelace, b.amount_lovelace)
      [] OTHER                        -> FALSE

CandidateOrders(available_utxos, strategy) ==
    LET n == Len(available_utxos)
        ordered(c) == \A i, j \in 1..n : i < j => ~Precedes(strategy, c[j], c[i])
    IN  {c \in {[i \in 1..n |-> available_utxos[p[i]]] : p \in Permutations_(n)} :
            ordered(c)}

\* a variant that looks at the lovelace only
Sufficient_AdaOnly(selected, target_amount, required_tokens) ==
    UGreaterEq(SumLovelace(selected), target_amount)

Sufficient(selected, target_amount, required_tokens) ==
    /\ UGreaterEq(SumLovelace(selected), target_amount)
    /\ \A t \in DOMAIN required_tokens :
          ~ULess(TokenOf(AccumulateTokens(selected), t), required_tokens[t])

\* a variant that takes one candidate more than the loop needs
SelectPrefix_OneMore(candidates, target_amount, required_tokens) ==
    LET ks == {k \in 1..Len(candidates) :
                  Sufficient(SubSeq(candidates, 1, k), target_amount, required_tokens)}
        first == CHOOSE k \in ks : \A m \in ks : k <= m
    IN  IF ks = {} THEN candidates
        ELSE SubSeq(candidates, 1, IF first < Len(candidates) THEN first + 1 ELSE first)

\* a variant that gives nothing back when the candidates run out
SelectPrefix_NothingWhenShort(candidates, target_amount, required_tokens) ==
    LET ks == {k \in 1..Len(candidates) :
                  Sufficient(SubSeq(candidates, 1, k), target_amount, required_tokens)}
    IN  IF ks = {} THEN <<>>
        ELSE SubSeq(candidates, 1, CHOOSE k \in ks : \A m \in ks : k <= m)

SelectPrefix(candidates, target_amount, required_tokens) ==
    LET ks == {k \in 1..Len(candidates) :
                  Sufficient(SubSeq(candidates, 1, k), target_amount, required_tokens)}
    IN  IF ks = {} THEN candidates
        ELSE SubSeq(candidates, 1, CHOOSE k \in ks : \A m \in ks : k <= m)

\* the set of sequences select_utxos_impl may return
select_utxos_impl(available_utxos, target_amount, required_tokens, strategy) ==
    {SelectPrefix(c, target_amount, required_tokens) :
        c \in CandidateOrders(available_utxos, strategy)}

select_utxos(available_utxos, target_amount, required_tokens) ==
    select_utxos_impl(available_utxos, target_amount, required_tokens, utxo_strategy_)

(***************************************************************************)
(* Transactions                                                            *)
(***************************************************************************)
NoMetadata == [present |-> FALSE, labels |-> <<>>, json_metadata |-> ""]

\* std::string::length of the metadata documents of the model
JsonLength(doc) ==
    CASE doc = "" -> 0
      [] doc = "temp=21" -> 7
      [] OTHER -> 0

\* the value-initialised Transaction of std::make_unique<Transaction>()
EmptyTransaction ==
    [tx_id |-> "", type |-> "PAYMENT", status |-> "PENDING",
     inputs |-> <<>>, outputs |-> <<>>, fee |-> 0, ttl |-> 0,
     metadata |-> NoMetadata, signed_cbor |-> <<>>, witnesses |-> <<>>,
     created_timestamp |-> 0, submitted_timestamp |-> 0,
     confirmed_timestamp |-> 0, error_message |-> ""]

BuildInputs(selected_utxos) ==
    [i \in 1..Len(selected_utxos) |->
        [tx_hash |-> selected_utxos[i].tx_hash,
         output_index |-> selected_utxos[i].output_index,
         utxo_info |-> selected_utxos[i]]]

InputUtxos(tx) == [i \in 1..Len(tx.inputs) |-> tx.inputs[i].utxo_info]

\* get_utxos after the builder's "refresh when empty"
UtxosOrEmpty(store, address) ==
    IF address \in DOMAIN store THEN store[address] ELSE <<>>

\* a lookup whose refresh forgets the lists of the other addresses
StoreAfterLookup_ForgetsOthers(address) ==
    IF UtxosOrEmpty(address_utxos_, address) = <<>>
    THEN address :> create_mock_utxos(address)
    ELSE address_utxos_

StoreAfterLookup(address) ==
    IF UtxosOrEmpty(address_utxos_, address) = <<>>
    THEN (address :> create_mock_utxos(address)) @@ address_utxos_
    ELSE address_utxos_

\* body of create_payment_transaction once the UTXOs are selected
PaymentBody(tx_id, from_address, to_address, amount_lovelace, selected_utxos) ==
    LET total_input == SumLovelace(selected_utxos)
        fee == estimate_fee(Len(selected_utxos), 2, 0)
        payment_output == [address |-> to_address,
                           amount_lovelace |-> amount_lovelace,
                           native_tokens |-> EmptyTokens]
        change == total_input - amount_lovelace - fee
        change_output == [address |-> from_address,
                          amount_lovelace |-> change,
                          native_tokens |-> EmptyTokens]
    IN  [EmptyTransaction EXCEPT
            !.tx_id = tx_id,
            !.type = "PAYMENT",
            !.status = "PENDING",
            !.created_timestamp = now,
            !.inputs = BuildInputs(selected_utxos),
            !.fee = fee,
            !.outputs = IF UGreater(change, fee_params_.min_utxo)
                        THEN <<payment_output, change_output>>
                        ELSE <<payment_output>>,
            !.ttl = now + TtlWindow]

\* body of create_token_transfer once the UTXOs are selected
TokenTransferBody(tx_id, from_address, to_address, tokens, selected_utxos) ==
    LET total_input == SumLovelace(selected_utxos)
        input_tokens == AccumulateTokens(selected_utxos)
        fee == estimate_fee(Len(selected_utxos), 2, 0)
        payment_output == [address |-> to_address,
                           amount_lovelace |-> fee_params_.min_utxo,
                           native_tokens |-> tokens]
        changed == {t \in DOMAIN input_tokens :
                       UGreater(input_tokens[t], TokenOf(tokens, t))}
        change_output == [address |-> from_address,
                          amount_lovelace |->
                              total_input - payment_output.amount_lovelace - fee,
                          native_tokens |->
                              [t \in changed |-> input_tokens[t] - TokenOf(tokens, t)]]
    IN  [EmptyTransaction EXCEPT
            !.tx_id = tx_id,
            !.type = "TOKEN_TRANSFER",
            !.status = "PENDING",
            !.created_timestamp = now,
            !.inputs = BuildInputs(selected_utxos),
            !.fee = fee,
            !.outputs = <<payment_output, change_output>>,
            !.ttl = now + TtlWindow]

\* create_metadata_transaction on the UTXOs found for from_address
\* create_metadata_transaction returning the whole input to the spender
MetadataBody_FeeNotTaken(tx_id, from_address, metadata, utxos) ==
    LET base == [EmptyTransaction EXCEPT
                    !.tx_id = tx_id,
                    !.type = "METADATA",
                    !.status = "PENDING",
                    !.metadata = metadata,
                    !.created_timestamp = now]
        fee == estimate_fee(1, 1, JsonLength(metadata.json_metadata))
    IN  IF utxos = <<>> THEN base
        ELSE [base EXCEPT
                !.inputs = BuildInputs(<<utxos[1]>>),
                !.fee = fee,
                !.outputs = <<[address |-> from_address,
                               amount_lovelace |-> utxos[1].amount_lovelace,
                               native_tokens |-> EmptyTokens]>>,
                !.ttl = now + TtlWindow]

\* create_metadata_transaction leaving the type at its default
MetadataBody_DefaultType(tx_id, from_address, metadata, utxos) ==
    LET base == [EmptyTransaction EXCEPT
                    !.tx_id = tx_id,
                    !.status = "PENDING",
                    !.metadata = metadata,
                    !.created_timestamp = now]
        fee == estimate_fee(1, 1, JsonLength(metadata.json_metadata))
    IN  IF utxos = <<>> THEN base
        ELSE [base EXCEPT
                !.inputs = BuildInputs(<<utxos[1]>>),
                !.fee = fee,
                !.outputs = <<[address |-> from_address,
                               amount_lovelace |-> utxos[1].amount_lovelace - fee,
                               native_tokens |-> EmptyTokens]>>,
                !.ttl = now + TtlWindow]

MetadataBody(tx_id, from_address, metadata, utxos) ==
    LET base == [EmptyTransaction EXCEPT
                    !.tx_id = tx_id,
                    !.type = "METADATA",
                    !.status = "PENDING",
                    !.metadata = metadata,
                    !.created_timestamp = now]
        fee == estimate_fee(1, 1, JsonLength(metadata.json_metadata))
    IN  IF utxos = <<>> THEN base
        ELSE [base EXCEPT
                !.inputs = BuildInputs(<<utxos[1]>>),
                !.fee = fee,
                !.outputs = <<[address |-> from_address,
                               amount_lovelace |-> utxos[1].amount_lovelace - fee,
                               native_tokens |-> EmptyTokens]>>,
                !.ttl = now + TtlWindow]

\* the parameters joined with "," by create_smart_contract_transaction
RECURSIVE JoinParameters(_)
JoinParameters(parameters) ==
    IF parameters = <<>> THEN <<>>
    ELSE IF Len(parameters) = 1 THEN <<parameters[1]>>
    ELSE <<parameters[1], ",">> \o JoinParameters(Tail(parameters))

\* create_smart_contract_transaction around the payment it builds
\* (payment_tx is <<>> for nullptr, <<tx>> otherwise)
SmartContractBody(tx_id, contract_address, function_name, parameters, payment_tx) ==
    LET base == [EmptyTransaction EXCEPT
                    !.tx_id = tx_id,
                    !.type = "SMART_CONTRACT",
                    !.status = "PENDING",
                    !.created_timestamp = now,
                    !.metadata = [present |-> TRUE,
                                  labels |-> [l \in {"function", "contract", "parameters"} |->
                                                CASE l = "function" -> <<function_name>>
                                                  [] l = "contract" -> <<contract_address>>
                                                  [] OTHER -> JoinParameters(parameters)],
                                  json_metadata |-> ""]]
    IN  IF payment_tx = <<>> THEN base
        ELSE [base EXCEPT
                !.inputs = payment_tx[1].inputs,
                !.outputs = payment_tx[1].outputs,
                !.fee = payment_tx[1].fee + ContractExtraFee,
                !.ttl = payment_tx[1].ttl]


(***************************************************************************)
(* calculate_fee: the three sizes are those of the transaction's vectors   *)
(* and of its metadata document                                            *)
(***************************************************************************)
\* a variant of calculate_fee that leaves the metadata out of the size
calculate_fee_NoMetadata(transaction) ==
    U64Add(U64Of(fee_params_.min_fee_a),
           U64Times(estimate_transaction_size_u64(U64Of(Len(transaction.inputs)),
                                                  U64Of(Len(transaction.outputs)),
                                                  U64Zero),
                    fee_params_.min_fee_b))

calculate_fee(transaction) ==
    U64Add(U64Of(fee_params_.min_fee_a),
           U64Times(estimate_transaction_size_u64(
                        U64Of(Len(transaction.inputs)),
                        U64Of(Len(transaction.outputs)),
                        U64Of(IF transaction.metadata.present
                              THEN JsonLength(transaction.metadata.json_metadata)
                              ELSE 0)),
                    fee_params_.min_fee_b))

(***************************************************************************)
(* Calls and their results                                                 *)
(***************************************************************************)
\* what a call returned: ret_tx is <<>> for nullptr and <<tx>> otherwise;
\* sent tells whether the call handed the transaction to the ledger and
\* reason is what the ledger answered
Call(op, tx_id) ==
    [op |-> op, tx_id |-> tx_id, ret_id |-> "", ret_ok |-> FALSE,
     ret_status |-> "", ret_tx |-> <<>>, sent |-> FALSE, reason |-> ""]

\* Impl::generate_tx_id: a timestamp and a random number in hexadecimal,
\* modelled as an id no transaction in the model carries yet
FreeIds == TxIds \ (DOMAIN held \cup DOMAIN transactions_)

generate_tx_id ==
    IdNames[CHOOSE i \in DOMAIN IdNames :
                /\ IdNames[i] \in FreeIds
                /\ \A j \in DOMAIN IdNames : IdNames[j] \in FreeIds => i <= j]

DefaultFeeParameters ==
    [min_fee_a |-> DefaultMinFeeA, min_fee_b |-> DefaultMinFeeB,
     min_utxo |-> DefaultMinUtxo]

NoStats ==
    [total_transactions |-> 0, confirmed_transactions |-> 0,
     failed_transactions |-> 0, pending_transactions |-> 0]

Init ==
    /\ initialized_ = FALSE
    /\ address_utxos_ = <<>>
    /\ fee_params_ = DefaultFeeParameters
    /\ utxo_strategy_ = "LARGEST_FIRST"
    /\ confirmation_callback_ = FALSE
    /\ transactions_ = <<>>
    /\ stats_ = NoStats
    /\ held = <<>>
    /\ now = StartTime
    /\ last = Call("none", "")

(***************************************************************************)
(* initialize / shutdown                                                   *)
(***************************************************************************)
initialize ==
    /\ IF initialized_
       THEN UNCHANGED <<initialized_, fee_params_>>
       ELSE /\ fee_params_' = DefaultFeeParameters
            /\ initialized_' = TRUE
    /\ last' = [Call("initialize", "") EXCEPT !.ret_ok = TRUE]
    /\ UNCHANGED <<address_utxos_, utxo_strategy_, confirmation_callback_, transactions_, stats_,
                   held, now>>

shutdown ==
    /\ IF ~initialized_
       THEN UNCHANGED <<initialized_, transactions_, address_utxos_>>
       ELSE /\ transactions_' = <<>>
            /\ address_utxos_' = <<>>
            /\ initialized_' = FALSE
    /\ last' = Call("shutdown", "")
    /\ UNCHANGED <<fee_params_, utxo_strategy_, confirmation_callback_, stats_, held, now>>

(***************************************************************************)
(* UTXO store and configuration                                            *)
(***************************************************************************)
refresh_utxos(address) ==
    /\ IF ~initialized_
       THEN /\ UNCHANGED address_utxos_
            /\ last' = Call("refresh_utxos", "")
       ELSE /\ address_utxos_' = (address :> create_mock_utxos(address)) @@ address_utxos_
            /\ last' = [Call("refresh_utxos", "") EXCEPT !.ret_ok = TRUE]
    /\ UNCHANGED <<initialized_, fee_params_, utxo_strategy_, confirmation_callback_, transactions_,
                   stats_, held, now>>

update_protocol_parameters(params) ==
    /\ fee_params_' = params
    /\ last' = Call("update_protocol_parameters", "")
    /\ UNCHANGED <<initialized_, address_utxos_, utxo_strategy_, confirmation_callback_, transactions_,
                   stats_, held, now>>

set_utxo_selection_strategy(strategy) ==
    /\ utxo_strategy_' = strategy
    /\ last' = Call("set_utxo_selection_strategy", "")
    /\ UNCHANGED <<initialized_, address_utxos_, fee_params_,
                   confirmation_callback_, transactions_, stats_, held, now>>

\* callback is TRUE for a callable object, FALSE for an empty std::function
set_confirmation_callback(callback) ==
    /\ confirmation_callback_' = callback
    /\ last' = Call("set_confirmation_callback", "")
    /\ UNCHANGED <<initialized_, address_utxos_, fee_params_, utxo_strategy_,
                   transactions_, stats_, held, now>>

(***************************************************************************)
(* Transaction building.  keep tells whether the caller keeps the          *)
(* returned object (to sign and submit it) or lets it go.                  *)
(***************************************************************************)
\* what create_payment_transaction may return on the refreshed store
PaymentResults(tx_id, from_address, to_address, amount_lovelace) ==
    LET utxos == UtxosOrEmpty(StoreAfterLookup(from_address), from_address)
    IN  {IF selected_utxos = <<>> THEN <<>>
         ELSE <<PaymentBody(tx_id, from_address, to_address, amount_lovelace,
                            selected_utxos)>> :
            selected_utxos \in select_utxos(utxos, amount_lovelace + FeeMargin, EmptyTokens)}

TokenTransferResults(tx_id, from_address, to_address, tokens) ==
    LET utxos == UtxosOrEmpty(StoreAfterLookup(from_address), from_address)
    IN  {IF selected_utxos = <<>> THEN <<>>
         ELSE <<TokenTransferBody(tx_id, from_address, to_address, tokens,
                                  selected_utxos)>> :
            selected_utxos \in select_utxos(utxos, fee_params_.min_utxo, tokens)}

\* the builder returns result (<<>> or <<tx>>) after looking up from_address
Returned(op, from_address, result, keep) ==
    /\ address_utxos_' = StoreAfterLookup(from_address)
    /\ last' = [Call(op, IF result = <<>> THEN "" ELSE result[1].tx_id)
                   EXCEPT !.ret_tx = result]
    /\ held' = IF keep /\ result # <<>>
               THEN (result[1].tx_id :> result[1]) @@ held
               ELSE held
    /\ UNCHANGED <<initialized_, fee_params_, utxo_strategy_, confirmation_callback_, transactions_,
                   stats_, now>>

NotInitialized(op) ==
    /\ ~initialized_
    /\ last' = Call(op, "")
    /\ UNCHANGED <<initialized_, address_utxos_, fee_params_, utxo_strategy_, confirmation_callback_,
                   transactions_, stats_, held, now>>

create_payment_transaction(from_address, to_address, amount_lovelace, keep) ==
    \/ NotInitialized("create_payment_transaction")
    \/ /\ initialized_
       /\ FreeIds # {}
       /\ \E result \in PaymentResults(generate_tx_id, from_address, to_address,
                                       amount_lovelace) :
             Returned("create_payment_transaction", from_address, result, keep)

create_token_transfer(from_address, to_address, tokens, keep) ==
    \/ NotInitialized("create_token_transfer")
    \/ /\ initialized_
       /\ FreeIds # {}
       /\ \E result \in TokenTransferResults(generate_tx_id, from_address, to_address,
                                             tokens) :
             Returned("create_token_transfer", from_address, result, keep)

create_metadata_transaction(from_address, metadata, keep) ==
    \/ NotInitialized("create_metadata_transaction")
    \/ /\ initialized_
       /\ FreeIds # {}
       /\ Returned("create_metadata_transaction", from_address,
                   <<MetadataBody(generate_tx_id, from_address, metadata,
                                  UtxosOrEmpty(StoreAfterLookup(from_address),
                                               from_address))>>,
                   keep)

create_smart_contract_transaction(from_address, contract_address, function_name, parameters, amount_lovelace, keep) ==
    \/ NotInitialized("create_smart_contract_transaction")
    \/ /\ initialized_
       /\ FreeIds # {}
       /\ \E payment_tx \in PaymentResults(generate_tx_id, from_address,
                                           contract_address, amount_lovelace) :
             Returned("create_smart_contract_transaction", from_address,
                      <<SmartContractBody(generate_tx_id, contract_address,
                                          function_name, parameters, payment_tx)>>,
                      keep)


(***************************************************************************)
(* Signing                                                                 *)
(***************************************************************************)
\* signing_key.substr(0, 8) for the keys of the model
KeyPrefix(signing_key) ==
    CASE signing_key = "signing_key_mock" -> "signing_"
      [] OTHER -> signing_key

\* a witness string, as the sequence of the pieces it is concatenated from
SignatureWitness(tx_id, signing_key) == <<"signed_", tx_id, "_", KeyPrefix(signing_key)>>

MultisigWitness(signature, public_key) == <<signature, ":", public_key>>

\* the witnesses of a list that are not the one-piece witnesses of add_witness
Signatures(witnesses) == SelectSeq(witnesses, LAMBDA w : Len(w) > 1)

\* the witnesses of a list that add_witness put there
RawWitnessesOf(witnesses) == SelectSeq(witnesses, LAMBDA w : Len(w) = 1)

\* sign_transaction that starts the witness list again
sign_transaction_Replaces(tx_id, signing_key) ==
    /\ tx_id \in DOMAIN held
    /\ Len(Signatures(held[tx_id].witnesses)) < MaxWitnesses
    /\ IF ~initialized_
       THEN /\ UNCHANGED held
            /\ last' = Call("sign_transaction", tx_id)
       ELSE /\ held' = [held EXCEPT
                           ![tx_id].witnesses =
                               <<SignatureWitness(tx_id, signing_key)>>,
                           ![tx_id].signed_cbor = <<"cbor_", tx_id, "_signed">>]
            /\ last' = [Call("sign_transaction", tx_id) EXCEPT !.ret_ok = TRUE]
    /\ UNCHANGED <<initialized_, address_utxos_, fee_params_, utxo_strategy_, confirmation_callback_,
                   transactions_, stats_, now>>

sign_transaction(tx_id, signing_key) ==
    /\ tx_id \in DOMAIN held
    /\ Len(Signatures(held[tx_id].witnesses)) < MaxWitnesses
    /\ IF ~initialized_
       THEN /\ UNCHANGED held
            /\ last' = Call("sign_transaction", tx_id)
       ELSE /\ held' = [held EXCEPT
                           ![tx_id].witnesses =
                               Append(@, SignatureWitness(tx_id, signing_key)),
                           ![tx_id].signed_cbor = <<"cbor_", tx_id, "_signed">>]
            /\ last' = [Call("sign_transaction", tx_id) EXCEPT !.ret_ok = TRUE]
    /\ UNCHANGED <<initialized_, address_utxos_, fee_params_, utxo_strategy_, confirmation_callback_,
                   transactions_, stats_, now>>

add_witness(tx_id, witness) ==
    /\ tx_id \in DOMAIN held
    /\ Len(RawWitnessesOf(held[tx_id].witnesses)) < MaxWitnesses
    /\ held' = [held EXCEPT ![tx_id].witnesses = Append(@, <<witness>>)]
    /\ last' = [Call("add_witness", tx_id) EXCEPT !.ret_ok = TRUE]
    /\ UNCHANGED <<initialized_, address_utxos_, fee_params_, utxo_strategy_, confirmation_callback_,
                   transactions_, stats_, now>>

(***************************************************************************)
(* Submission.  The ledger (Impl::submit_to_network) accepts or declines   *)
(* at random; answer is "accepted" or the reason of the ledger for         *)
(* declining, of which submit_to_network returns nothing but "".           *)
(***************************************************************************)
submit_to_network(transaction, answer) ==
    IF answer = "accepted" THEN transaction.tx_id ELSE ""

SubmitFailedMessage == "Network submission failed"

\* a variant that stores the copy as submitted without the time of it
StoredOnSubmit_NoTimestamp(transaction) ==
    [transaction EXCEPT !.status = "SUBMITTED"]

\* the record stored first, before the ledger is asked
StoredOnSubmit(transaction) ==
    [transaction EXCEPT !.status = "SUBMITTED", !.submitted_timestamp = now]

\* a variant that records the ledger's refusal without changing the status
MarkedFailed_KeepsStatus(stored) ==
    [stored EXCEPT !.error_message = SubmitFailedMessage]

\* the record after the ledger declined
MarkedFailed(stored) ==
    [stored EXCEPT !.status = "FAILED", !.error_message = SubmitFailedMessage]

submit_transaction(tx_id, answer) ==
    /\ tx_id \in DOMAIN held
    /\ IF ~initialized_
       THEN /\ last' = Call("submit_transaction", tx_id)
            /\ UNCHANGED <<transactions_, stats_>>
       ELSE LET transaction == held[tx_id]
                result == submit_to_network(transaction, answer)
                stored == StoredOnSubmit(transaction)
            IN  /\ stats_.total_transactions + stats_.failed_transactions < MaxSubmits
                /\ last' = [Call("submit_transaction", tx_id) EXCEPT
                               !.ret_id = result, !.sent = TRUE, !.reason = answer]
                /\ IF result # ""
                   THEN /\ transactions_' = (transaction.tx_id :> stored) @@ transactions_
                        /\ stats_' = [stats_ EXCEPT
                                         !.total_transactions = @ + 1,
                                         !.pending_transactions = @ + 1]
                   ELSE /\ transactions_' =
                               (transaction.tx_id :> MarkedFailed(stored)) @@ transactions_
                        /\ stats_' = [stats_ EXCEPT !.failed_transactions = @ + 1]
    /\ UNCHANGED <<initialized_, address_utxos_, fee_params_, utxo_strategy_, confirmation_callback_,
                   held, now>>

\* a variant that also cancels a transaction the ledger already holds
cancel_transaction_AlsoSubmitted(tx_id) ==
    /\ IF tx_id \in DOMAIN transactions_
          /\ transactions_[tx_id].status \in {"PENDING", "SUBMITTED"}
       THEN /\ transactions_' = [transactions_ EXCEPT ![tx_id].status = "CANCELLED"]
            /\ last' = [Call("cancel_transaction", tx_id) EXCEPT !.ret_ok = TRUE]
       ELSE /\ UNCHANGED transactions_
            /\ last' = Call("cancel_transaction", tx_id)
    /\ UNCHANGED <<initialized_, address_utxos_, fee_params_, utxo_strategy_, confirmation_callback_,
                   stats_, held, now>>

cancel_transaction(tx_id) ==
    /\ IF tx_id \in DOMAIN transactions_ /\ transactions_[tx_id].status = "PENDING"
       THEN /\ transactions_' = [transactions_ EXCEPT ![tx_id].status = "CANCELLED"]
            /\ last' = [Call("cancel_transaction", tx_id) EXCEPT !.ret_ok = TRUE]
       ELSE /\ UNCHANGED transactions_
            /\ last' = Call("cancel_transaction", tx_id)
    /\ UNCHANGED <<initialized_, address_utxos_, fee_params_, utxo_strategy_, confirmation_callback_,
                   stats_, held, now>>

(***************************************************************************)
(* Monitoring                                                              *)
(***************************************************************************)
\* Impl::check_confirmation: final once more than 30 seconds have passed
\* since the stored submitted_timestamp (an unsigned difference)
check_confirmation(tx_id) ==
    IF tx_id \in DOMAIN transactions_
    THEN UGreater(now - transactions_[tx_id].submitted_timestamp, ConfirmDelay)
    ELSE FALSE

\* a variant that confirms without recording when
Polled_NoTimestamp(tx_id) ==
    IF transactions_[tx_id].status = "SUBMITTED" /\ check_confirmation(tx_id)
    THEN [transactions_[tx_id] EXCEPT !.status = "CONFIRMED"]
    ELSE transactions_[tx_id]

\* the stored record get_transaction_status leaves behind
Polled(tx_id) ==
    IF transactions_[tx_id].status = "SUBMITTED" /\ check_confirmation(tx_id)
    THEN [transactions_[tx_id] EXCEPT
             !.status = "CONFIRMED", !.confirmed_timestamp = now]
    ELSE transactions_[tx_id]

get_transaction_status(tx_id) ==
    /\ IF tx_id \in DOMAIN transactions_
       THEN /\ transactions_' = [transactions_ EXCEPT ![tx_id] = Polled(tx_id)]
            /\ last' = [Call("get_transaction_status", tx_id) EXCEPT
                           !.ret_status = Polled(tx_id).status]
       ELSE /\ UNCHANGED transactions_
            /\ last' = [Call("get_transaction_status", tx_id) EXCEPT
                           !.ret_status = "FAILED"]
    /\ UNCHANGED <<initialized_, address_utxos_, fee_params_, utxo_strategy_, confirmation_callback_,
                   stats_, held, now>>

add_multisig_signature(tx_id, signature, public_key) ==
    /\ IF tx_id \in DOMAIN transactions_
       THEN /\ Len(transactions_[tx_id].witnesses) < MaxWitnesses
            /\ transactions_' = [transactions_ EXCEPT
                                    ![tx_id].witnesses =
                                        Append(@, MultisigWitness(signature, public_key))]
            /\ last' = [Call("add_multisig_signature", tx_id) EXCEPT !.ret_ok = TRUE]
       ELSE /\ UNCHANGED transactions_
            /\ last' = Call("add_multisig_signature", tx_id)
    /\ UNCHANGED <<initialized_, address_utxos_, fee_params_, utxo_strategy_, confirmation_callback_,
                   stats_, held, now>>

(***************************************************************************)
(* create_multisig_transaction: logs and returns true.  Nothing of the     *)
(* request is stored in the manager; the caller keeps what it asked for,   *)
(* under the key "multisig" of the objects it holds.                       *)
(***************************************************************************)
create_multisig_transaction(signing_addresses, required_signatures, output) ==
    /\ last' = [op |-> "create_multisig_transaction", ret_ok |-> TRUE,
                signing_addresses |-> signing_addresses,
                required_signatures |-> required_signatures]
    /\ held' = ("multisig" :> [signing_addresses |-> signing_addresses,
                               required_signatures |-> required_signatures,
                               output |-> output]) @@ held
    /\ UNCHANGED <<initialized_, address_utxos_, fee_params_, utxo_strategy_, confirmation_callback_,
                   transactions_, stats_, now>>

(***************************************************************************)
(* select_utxos called directly                                            *)
(***************************************************************************)
select_utxos_call(available_utxos, target_amount, required_tokens) ==
    /\ \E result \in select_utxos(available_utxos, target_amount, required_tokens) :
          last' = [op |-> "select_utxos", available_utxos |-> available_utxos,
                   target_amount |-> target_amount,
                   required_tokens |-> required_tokens,
                   strategy |-> utxo_strategy_, result |-> result]
    /\ UNCHANGED <<initialized_, address_utxos_, fee_params_, utxo_strategy_, confirmation_callback_,
                   transactions_, stats_, held, now>>

(***************************************************************************)
(* estimate_fee and calculate_fee called directly.  The result of the      *)
(* estimate_fee call before is kept next to the new one.                   *)
(***************************************************************************)
estimate_fee_call(num_inputs, num_outputs, metadata_size) ==
    LET args == <<num_inputs, num_outputs, metadata_size>>
        fee == estimate_fee_u64(num_inputs, num_outputs, metadata_size)
        again == last.op = "estimate_fee"
    IN  /\ last' = [op |-> "estimate_fee", args |-> args, fee |-> fee,
                    prev_args |-> IF again THEN last.args ELSE args,
                    prev_fee |-> IF again THEN last.fee ELSE fee]
        /\ UNCHANGED <<initialized_, address_utxos_, fee_params_, utxo_strategy_, confirmation_callback_,
                       transactions_, stats_, held, now>>

calculate_fee_call(transaction) ==
    /\ last' = [op |-> "calculate_fee", transaction |-> transaction,
                fee |-> calculate_fee(transaction)]
    /\ UNCHANGED <<initialized_, address_utxos_, fee_params_, utxo_strategy_, confirmation_callback_,
                   transactions_, stats_, held, now>>

(***************************************************************************)
(* wait_for_confirmation                                                   *)
(*                                                                         *)
(* The call blocks its caller, so while it runs `last` holds the call in   *)
(* progress: its arguments, its local start_time, its position in the loop *)
(* (pc) and, once it returned, why (outcome).  before is the stored map at *)
(* the moment of the call, callbacks the invocations of the confirmation   *)
(* callback the call has made, each as <<tx_id, confirmed>>.               *)
(***************************************************************************)
Waiting == last.op = "wait_for_confirmation" /\ last.pc # "done"

\* the call and `auto start_time = steady_clock::now()`
wait_for_confirmation(tx_id, timeout_seconds) ==
    /\ last' = [op |-> "wait_for_confirmation", tx_id |-> tx_id,
                timeout_seconds |-> timeout_seconds, start_time |-> now,
                pc |-> "poll", outcome |-> "", before |-> transactions_,
                callbacks |-> <<>>]
    /\ UNCHANGED <<initialized_, address_utxos_, fee_params_, utxo_strategy_, confirmation_callback_,
                   transactions_, stats_, held, now>>

\* the stored map and the status one get_transaction_status(tx_id) leaves
StoredAfterPoll(tx_id) ==
    IF tx_id \in DOMAIN transactions_
    THEN [transactions_ EXCEPT ![tx_id] = Polled(tx_id)]
    ELSE transactions_

\* a variant for which a transaction without a record is still pending
StatusAfterPoll_UnknownPending(tx_id) ==
    IF tx_id \in DOMAIN transactions_ THEN Polled(tx_id).status ELSE "PENDING"

StatusAfterPoll(tx_id) ==
    IF tx_id \in DOMAIN transactions_ THEN Polled(tx_id).status ELSE "FAILED"

\* a variant whose loop never looks at the elapsed time
WaitVerdict_NoTimeout(status, elapsed, timeout_seconds) ==
    IF status = "CONFIRMED" THEN "confirmed"
    ELSE IF status = "FAILED" THEN "failed"
    ELSE ""

\* how one pass of the loop body ends
WaitVerdict(status, elapsed, timeout_seconds) ==
    IF status = "CONFIRMED" THEN "confirmed"
    ELSE IF status = "FAILED" THEN "failed"
    ELSE IF elapsed >= timeout_seconds THEN "timeout"
    ELSE ""

\* a variant that also reports a timeout to the callback, as a failure
CallbacksAfter_AlsoOnTimeout(callbacks, tx_id, verdict) ==
    IF confirmation_callback_ /\ verdict \in {"confirmed", "failed", "timeout"}
    THEN Append(callbacks, <<tx_id, verdict = "confirmed">>)
    ELSE callbacks

\* the invocations a pass of the loop adds: one on CONFIRMED and one on
\* FAILED, when a callback is set
CallbacksAfter(callbacks, tx_id, verdict) ==
    IF confirmation_callback_ /\ verdict \in {"confirmed", "failed"}
    THEN Append(callbacks, <<tx_id, verdict = "confirmed">>)
    ELSE callbacks

\* a variant that gives the transaction up when the timeout elapses
wait_poll_FailsOnTimeout ==
    /\ Waiting
    /\ last.pc = "poll"
    /\ LET verdict == WaitVerdict(StatusAfterPoll(last.tx_id),
                                  now - last.start_time, last.timeout_seconds)
       IN  /\ transactions_' =
                 IF verdict = "timeout"
                 THEN [transactions_ EXCEPT ![last.tx_id] =
                          [@ EXCEPT !.status = "FAILED",
                                    !.error_message = "Confirmation timeout"]]
                 ELSE StoredAfterPoll(last.tx_id)
           /\ last' = [last EXCEPT !.pc = IF verdict = "" THEN "sleep" ELSE "done",
                                   !.outcome = verdict,
                                   !.callbacks = CallbacksAfter(@, last.tx_id, verdict)]
    /\ UNCHANGED <<initialized_, address_utxos_, fee_params_, utxo_strategy_, confirmation_callback_,
                   stats_, held, now>>

\* one pass of the loop body up to the break or the sleep
wait_poll ==
    /\ Waiting
    /\ last.pc = "poll"
    /\ LET verdict == WaitVerdict(StatusAfterPoll(last.tx_id),
                                  now - last.start_time, last.timeout_seconds)
       IN  /\ transactions_' = StoredAfterPoll(last.tx_id)
           /\ last' = [last EXCEPT !.pc = IF verdict = "" THEN "sleep" ELSE "done",
                                   !.outcome = verdict,
                                   !.callbacks = CallbacksAfter(@, last.tx_id, verdict)]
    /\ UNCHANGED <<initialized_, address_utxos_, fee_params_, utxo_strategy_, confirmation_callback_,
                   stats_, held, now>>

\* std::this_thread::sleep_for(1 s): at least one second passes
wait_sleep(seconds) ==
    /\ Waiting
    /\ last.pc = "sleep"
    /\ seconds >= 1
    /\ now' = now + seconds
    /\ last' = [last EXCEPT !.pc = "poll"]
    /\ UNCHANGED <<initialized_, address_utxos_, fee_params_, utxo_strategy_, confirmation_callback_,
                   transactions_, stats_, held>>

(***************************************************************************)
(* Calls of several threads on one manager.  A step is what a thread does  *)
(* while it holds transactions_mutex_ (with stats_mutex_ inside it);       *)
(* submit_transaction is two such steps with the call to the ledger        *)
(* between them.  last holds, for every thread, where it is in             *)
(* submit_transaction and the transaction it submits, and for every        *)
(* transaction the status a caller saw last.                               *)
(***************************************************************************)
Threads == {1, 2}

NoThreads ==
    [op |-> "threads",
     pc |-> [t \in Threads |-> "idle"],
     tx_id |-> [t \in Threads |-> ""],
     seen |-> [id \in TxIds |-> ""]]

ThreadsOf(record) == IF record.op = "threads" THEN record ELSE NoThreads

\* lines 743-758: the copy is stored as SUBMITTED
submit_transaction_store(t, tx_id) ==
    /\ ThreadsOf(last).pc[t] = "idle"
    /\ tx_id \in DOMAIN held
    /\ initialized_
    /\ stats_.total_transactions + stats_.failed_transactions
          + Cardinality({u \in Threads : ThreadsOf(last).pc[u] = "stored"}) < MaxSubmits
    /\ transactions_' = (tx_id :> StoredOnSubmit(held[tx_id])) @@ transactions_
    /\ last' = [ThreadsOf(last) EXCEPT !.pc[t] = "stored", !.tx_id[t] = tx_id]
    /\ UNCHANGED <<initialized_, address_utxos_, fee_params_, utxo_strategy_, confirmation_callback_,
                   stats_, held, now>>

\* lines 760-789: the ledger answers, the counters and the record follow
submit_transaction_finish(t, answer) ==
    LET tx_id == ThreadsOf(last).tx_id[t]
        result == submit_to_network(held[tx_id], answer)
    IN  /\ ThreadsOf(last).pc[t] = "stored"
        /\ IF result # ""
           THEN /\ stats_' = [stats_ EXCEPT
                                 !.total_transactions = @ + 1,
                                 !.pending_transactions = @ + 1]
                /\ UNCHANGED transactions_
           ELSE /\ transactions_' =
                       IF tx_id \in DOMAIN transactions_
                       THEN [transactions_ EXCEPT ![tx_id] = MarkedFailed(@)]
                       ELSE transactions_
                /\ stats_' = [stats_ EXCEPT !.failed_transactions = @ + 1]
        /\ last' = [ThreadsOf(last) EXCEPT !.pc[t] = "idle", !.tx_id[t] = ""]
        /\ UNCHANGED <<initialized_, address_utxos_, fee_params_, utxo_strategy_, confirmation_callback_,
                       held, now>>

\* the status a caller is shown for a stored record
Seen(record, tx_id, status) == [record EXCEPT !.seen[tx_id] = status]

get_transaction_status_in(t, tx_id) ==
    /\ ThreadsOf(last).pc[t] = "idle"
    /\ tx_id \in DOMAIN transactions_
    /\ transactions_' = [transactions_ EXCEPT ![tx_id] = Polled(tx_id)]
    /\ last' = Seen(ThreadsOf(last), tx_id, Polled(tx_id).status)
    /\ UNCHANGED <<initialized_, address_utxos_, fee_params_, utxo_strategy_, confirmation_callback_,
                   stats_, held, now>>

get_transaction(t, tx_id) ==
    /\ ThreadsOf(last).pc[t] = "idle"
    /\ tx_id \in DOMAIN transactions_
    /\ last' = Seen(ThreadsOf(last), tx_id, transactions_[tx_id].status)
    /\ UNCHANGED <<initialized_, address_utxos_, fee_params_, utxo_strategy_, confirmation_callback_,
                   transactions_, stats_, held, now>>

cancel_transaction_in(t, tx_id) ==
    /\ ThreadsOf(last).pc[t] = "idle"
    /\ tx_id \in DOMAIN transactions_
    /\ transactions_' =
          IF transactions_[tx_id].status = "PENDING"
          THEN [transactions_ EXCEPT ![tx_id].status = "CANCELLED"]
          ELSE transactions_
    /\ last' = ThreadsOf(last)
    /\ UNCHANGED <<initialized_, address_utxos_, fee_params_, utxo_strategy_, confirmation_callback_,
                   stats_, held, now>>

(***************************************************************************)
(* Calls of several threads on the UTXO store.  utxos_mutex_ is the lock   *)
(* field of last: 0 when free, else the thread that holds it.              *)
(* refresh_utxos assigns the new vector while it holds the lock; the       *)
(* assignment is modelled element by element, so that the store passes     *)
(* through half-written lists.  A reader is between its call and its       *)
(* return while it waits for the lock.                                     *)
(***************************************************************************)
NoUtxoThreads ==
    [op |-> "utxo_threads",
     lock |-> 0,
     pc |-> [t \in Threads |-> "idle"],
     address |-> [t \in Threads |-> ""],
     written |-> [t \in Threads |-> 0],
     overlapped |-> [t \in Threads |-> FALSE],
     result |-> [t \in Threads |-> <<>>]]

UtxoThreadsOf(record) == IF record.op = "utxo_threads" THEN record ELSE NoUtxoThreads

refresh_utxos_lock(t, address) ==
    /\ initialized_
    /\ UtxoThreadsOf(last).pc[t] = "idle"
    /\ UtxoThreadsOf(last).lock = 0
    /\ last' = [UtxoThreadsOf(last) EXCEPT
                   !.lock = t, !.pc[t] = "refresh_utxos",
                   !.address[t] = address, !.written[t] = 0]
    /\ UNCHANGED <<initialized_, address_utxos_, fee_params_, utxo_strategy_, confirmation_callback_,
                   transactions_, stats_, held, now>>

refresh_utxos_write(t) ==
    LET address == last.address[t]
        written == last.written[t] + 1
    IN  /\ last.op = "utxo_threads"
        /\ last.pc[t] = "refresh_utxos"
        /\ last.written[t] < MockUtxoCount
        /\ address_utxos_' =
              (address :> SubSeq(create_mock_utxos(address), 1, written))
                 @@ address_utxos_
        /\ last' = [last EXCEPT !.written[t] = written]
        /\ UNCHANGED <<initialized_, fee_params_, utxo_strategy_, confirmation_callback_,
                       transactions_, stats_, held, now>>

refresh_utxos_unlock(t) ==
    /\ last.op = "utxo_threads"
    /\ last.pc[t] = "refresh_utxos"
    /\ last.written[t] = MockUtxoCount
    /\ last' = [last EXCEPT !.lock = 0, !.pc[t] = "idle"]
    /\ UNCHANGED <<initialized_, address_utxos_, fee_params_, utxo_strategy_, confirmation_callback_,
                   transactions_, stats_, held, now>>

\* get_utxos or get_wallet_balance is called and comes to the lock
reader_call(t, op, address) ==
    /\ initialized_
    /\ UtxoThreadsOf(last).pc[t] = "idle"
    /\ last' = [UtxoThreadsOf(last) EXCEPT
                   !.pc[t] = op, !.address[t] = address,
                   !.overlapped[t] = (UtxoThreadsOf(last).lock # 0),
                   !.result[t] = <<>>]
    /\ UNCHANGED <<initialized_, address_utxos_, fee_params_, utxo_strategy_, confirmation_callback_,
                   transactions_, stats_, held, now>>

\* get_utxos that reads without taking the lock
get_utxos_return_Unlocked(t) ==
    /\ last.op = "utxo_threads"
    /\ last.pc[t] = "get_utxos"
    /\ last' = [last EXCEPT
                   !.pc[t] = "idle",
                   !.result[t] = <<[op |-> "get_utxos",
                                    address |-> last.address[t],
                                    overlapped |-> last.overlapped[t],
                                    utxos |-> UtxosOrEmpty(address_utxos_,
                                                           last.address[t])]>>]
    /\ UNCHANGED <<initialized_, address_utxos_, fee_params_, utxo_strategy_, confirmation_callback_,
                   transactions_, stats_, held, now>>

get_utxos_return(t) ==
    /\ last.op = "utxo_threads"
    /\ last.pc[t] = "get_utxos"
    /\ last.lock = 0
    /\ last' = [last EXCEPT
                   !.pc[t] = "idle",
                   !.result[t] = <<[op |-> "get_utxos",
                                    address |-> last.address[t],
                                    overlapped |-> last.overlapped[t],
                                    utxos |-> UtxosOrEmpty(address_utxos_,
                                                           last.address[t])]>>]
    /\ UNCHANGED <<initialized_, address_utxos_, fee_params_, utxo_strategy_, confirmation_callback_,
                   transactions_, stats_, held, now>>

get_wallet_balance_return(t) ==
    LET utxos == UtxosOrEmpty(address_utxos_, last.address[t])
    IN  /\ last.op = "utxo_threads"
        /\ last.pc[t] = "get_wallet_balance"
        /\ last.lock = 0
        /\ last' = [last EXCEPT
                       !.pc[t] = "idle",
                       !.result[t] = <<[op |-> "get_wallet_balance",
                                        address |-> last.address[t],
                                        overlapped |-> last.overlapped[t],
                                        total_lovelace |-> SumLovelace(utxos),
                                        available_lovelace |-> SumLovelace(utxos),
                                        native_tokens |-> AccumulateTokens(utxos),
                                        utxos |-> utxos]>>]
        /\ UNCHANGED <<initialized_, address_utxos_, fee_params_, utxo_strategy_, confirmation_callback_,
                       transactions_, stats_, held, now>>

(***************************************************************************)
(* The mutexes.  Every public operation is the sequence of what it does    *)
(* to the three mutexes and to the three objects they are there for, in    *)
(* the order of its code; an operation with branches has one sequence per  *)
(* branch.  The data is left out: a thread is where it is in its sequence  *)
(* and holds the mutexes it took, in the order it took them.               *)
(***************************************************************************)
Mutexes == {"transactions_mutex_", "utxos_mutex_", "stats_mutex_", "log_mutex_"}

\* the three mutexes of TransactionManager::Impl; log_mutex_ is the logger's
ManagerMutexes == {"transactions_mutex_", "utxos_mutex_", "stats_mutex_"}

Lock(mutex) == <<"lock", mutex>>
Unlock(mutex) == <<"unlock", mutex>>
Read(object) == <<"read", object>>
Write(object) == <<"write", object>>

\* Logger::log at the default level: the line is written under log_mutex_
Log == <<Lock("log_mutex_"), Unlock("log_mutex_")>>

\* get_utxos and get_wallet_balance, lines 368-384 and 338-366
ReadUtxos == <<Lock("utxos_mutex_"), Read("address_utxos_"), Unlock("utxos_mutex_")>>

\* refresh_utxos, lines 386-401: the line is logged under utxos_mutex_
RefreshUtxos ==
    <<Lock("utxos_mutex_"), Write("address_utxos_")>> \o Log \o <<Unlock("utxos_mutex_")>>

\* a builder: get_utxos, and refresh_utxos and get_utxos again when the
\* list is empty; then a line is logged, with no mutex held
BuilderPaths == {ReadUtxos \o Log, ReadUtxos \o RefreshUtxos \o ReadUtxos \o Log}

\* accesses to the transaction table under its mutex
TableAccess(accesses) ==
    <<Lock("transactions_mutex_")>> \o accesses \o <<Unlock("transactions_mutex_")>>

SubmitDeclined_StatsFirst ==
    <<Lock("stats_mutex_"), Write("stats_"),
      Lock("transactions_mutex_"), Read("transactions_"), Write("transactions_")>>
    \o Log \o <<Unlock("transactions_mutex_"), Unlock("stats_mutex_")>>

\* submit_transaction after the ledger declined, lines 772-787: the record
\* is marked under transactions_mutex_ and, still under it, the statistics
\* are counted and the line is logged under stats_mutex_
SubmitDeclined ==
    <<Lock("transactions_mutex_"), Read("transactions_"), Write("transactions_"),
      Lock("stats_mutex_"), Write("stats_")>>
    \o Log \o <<Unlock("stats_mutex_"), Unlock("transactions_mutex_")>>

\* submit_transaction after the ledger accepted, lines 763-771
SubmitAccepted ==
    <<Lock("stats_mutex_"), Write("stats_")>> \o Log \o <<Unlock("stats_mutex_")>>

PublicOperations ==
    {"initialize", "shutdown", "get_wallet_balance", "get_utxos", "refresh_utxos",
     "create_payment_transaction", "create_token_transfer",
     "create_metadata_transaction", "create_smart_contract_transaction",
     "submit_transaction", "cancel_transaction", "get_transaction_status",
     "get_transaction", "get_transactions_by_device", "get_pending_transactions",
     "wait_for_confirmation", "add_multisig_signature", "get_statistics",
     "reset_statistics"}

\* the sequences of an operation; not initialized, an operation that tests
\* initialized_ first returns with the empty sequence
Paths(op) ==
    CASE op = "initialize" ->
            {<<Lock("transactions_mutex_"), Unlock("transactions_mutex_")>>,
             <<Lock("transactions_mutex_")>> \o Log \o <<Unlock("transactions_mutex_")>>}
      [] op = "shutdown" ->
            {<<Lock("transactions_mutex_"), Unlock("transactions_mutex_")>>,
             <<Lock("transactions_mutex_"), Write("transactions_"),
               Write("address_utxos_")>> \o Log \o <<Unlock("transactions_mutex_")>>}
      [] op \in {"get_wallet_balance", "get_utxos"} -> {<<>>, ReadUtxos}
      [] op = "refresh_utxos" -> {<<>>, RefreshUtxos}
      [] op \in {"create_payment_transaction", "create_token_transfer",
                 "create_metadata_transaction",
                 "create_smart_contract_transaction"} -> {<<>>} \cup BuilderPaths
      [] op = "submit_transaction" ->
            {<<>>,
             TableAccess(<<Write("transactions_")>>) \o SubmitAccepted,
             TableAccess(<<Write("transactions_")>>) \o SubmitDeclined}
      [] op \in {"cancel_transaction", "add_multisig_signature"} ->
            {TableAccess(<<Read("transactions_")>>),
             TableAccess(<<Read("transactions_"), Write("transactions_")>> \o Log)}
      [] op \in {"get_transaction_status", "wait_for_confirmation"} ->
            {TableAccess(<<Read("transactions_")>>),
             TableAccess(<<Read("transactions_"), Write("transactions_")>>)}
      [] op \in {"get_transaction", "get_transactions_by_device",
                 "get_pending_transactions"} ->
            {TableAccess(<<Read("transactions_")>>)}
      [] op = "get_statistics" ->
            {<<Lock("stats_mutex_"), Read("stats_"), Unlock("stats_mutex_")>>}
      [] op = "reset_statistics" ->
            {<<Lock("stats_mutex_"), Write("stats_")>> \o Log \o <<Unlock("stats_mutex_")>>}

\* the threads before any of them called: last holds, for every thread, the
\* operation it is in, the rest of its sequence and the mutexes it holds,
\* and the access made last with the mutexes that were held for it
NoLocks ==
    [op |-> "locks",
     call |-> [t \in Threads |-> ""],
     rest |-> [t \in Threads |-> <<>>],
     holds |-> [t \in Threads |-> <<>>],
     access |-> <<>>]

LocksOf(record) == IF record.op = "locks" THEN record ELSE NoLocks

HeldBy(record, mutex) ==
    {t \in Threads : \E i \in DOMAIN record.holds[t] : record.holds[t][i] = mutex}

\* a thread calls an operation and is at the start of one of its sequences
operation_call(t, op) ==
    /\ LocksOf(last).rest[t] = <<>>
    /\ \E path \in Paths(op) :
          last' = [LocksOf(last) EXCEPT !.call[t] = op, !.rest[t] = path]
    /\ UNCHANGED <<initialized_, address_utxos_, fee_params_, utxo_strategy_,
                   confirmation_callback_, transactions_, stats_, held, now>>

\* std::lock_guard's constructor: the thread waits while the mutex is held
mutex_lock(t) ==
    /\ last.op = "locks"
    /\ last.rest[t] # <<>>
    /\ Head(last.rest[t])[1] = "lock"
    /\ HeldBy(last, Head(last.rest[t])[2]) = {}
    /\ last' = [last EXCEPT !.rest[t] = Tail(@),
                            !.holds[t] = Append(@, Head(last.rest[t])[2])]
    /\ UNCHANGED <<initialized_, address_utxos_, fee_params_, utxo_strategy_,
                   confirmation_callback_, transactions_, stats_, held, now>>

\* std::lock_guard's destructor
mutex_unlock(t) ==
    /\ last.op = "locks"
    /\ last.rest[t] # <<>>
    /\ Head(last.rest[t])[1] = "unlock"
    /\ last' = [last EXCEPT !.rest[t] = Tail(@),
                            !.holds[t] = SelectSeq(@, LAMBDA m : m # Head(last.rest[t])[2])]
    /\ UNCHANGED <<initialized_, address_utxos_, fee_params_, utxo_strategy_,
                   confirmation_callback_, transactions_, stats_, held, now>>

\* a read or a write of one of the three objects
object_access(t) ==
    /\ last.op = "locks"
    /\ last.rest[t] # <<>>
    /\ Head(last.rest[t])[1] \in {"read", "write"}
    /\ last' = [last EXCEPT !.rest[t] = Tail(@),
                            !.access = <<[thread |-> t, call |-> last.call[t],
                                          kind |-> Head(last.rest[t])[1],
                                          object |-> Head(last.rest[t])[2],
                                          holds |-> last.holds[t]]>>]
    /\ UNCHANGED <<initialized_, address_utxos_, fee_params_, utxo_strategy_,
                   confirmation_callback_, transactions_, stats_, held, now>>

(***************************************************************************)
(* The clock                                                               *)
(***************************************************************************)
Tick(seconds) ==
    /\ now + seconds <= StartTime + MaxElapsed
    /\ now' = now + seconds
    /\ UNCHANGED <<initialized_, address_utxos_, fee_params_, utxo_strategy_, confirmation_callback_,
                   transactions_, stats_, held, last>>

(***************************************************************************)
(* Specifications                                                          *)
(***************************************************************************)
Amounts == {1000000, 19000000, 25000000, 50000000}
TokenRequests == {EmptyTokens, Token1 :> 100, Token1 :> 2000}
MetadataDocs ==
    {[present |-> TRUE, labels |-> <<>>, json_metadata |-> d] : d \in {"", "temp=21"}}
ParameterChoices ==
    {DefaultFeeParameters,
     [min_fee_a |-> 200000, min_fee_b |-> 50, min_utxo |-> 2000000]}
SigningKeys == {"signing_key_mock"}
RawWitnesses == {"witness_hw"}
LedgerAnswers == {"accepted", "mempool full"}
TickSteps == {ConfirmDelay, ConfirmDelay + 1}

\* the transaction lifecycle: build, sign, submit, poll, cancel
Next ==
    \/ initialize
    \/ shutdown
    \/ create_payment_transaction("addrA", "addrB", 1000000, TRUE)
    \/ \E id \in TxIds, k \in SigningKeys : sign_transaction(id, k)
    \/ \E id \in TxIds, r \in LedgerAnswers : submit_transaction(id, r)
    \/ \E id \in TxIds : cancel_transaction(id)
    \/ \E id \in TxIds : get_transaction_status(id)
    \/ \E id \in TxIds : add_multisig_signature(id, "sig1", "pk1")
    \/ \E d \in TickSteps : Tick(d)

Spec == Init /\ [][Next]_vars

\* the builder under every intent, strategy and parameter choice
NextBuild ==
    \/ initialize
    \/ shutdown
    \/ \E a \in Addresses : refresh_utxos(a)
    \/ \E p \in ParameterChoices : update_protocol_parameters(p)
    \/ \E s \in Strategies : set_utxo_selection_strategy(s)
    \/ \E a \in Addresses, b \in Addresses, n \in Amounts :
          create_payment_transaction(a, b, n, FALSE)
    \/ \E a \in Addresses, b \in Addresses, t \in TokenRequests :
          create_token_transfer(a, b, t, FALSE)
    \/ \E a \in Addresses, m \in MetadataDocs :
          create_metadata_transaction(a, m, FALSE)
    \/ \E a \in Addresses, b \in Addresses, n \in Amounts :
          create_smart_contract_transaction(a, b, "record", <<"p1", "p2">>, n, FALSE)

SpecBuild == Init /\ [][NextBuild]_vars

\* the UTXOs select_utxos is tried on: the mock ones and one more that
\* ties with the first on amount_lovelace and carries a token
SelectionPool ==
    create_mock_utxos("addrA")
        \o <<[tx_hash |-> "mock3", output_index |-> 0, address |-> "addrA",
              amount_lovelace |-> MockBaseAmount,
              native_tokens |-> Token1 :> 700]>>

AvailableLists ==
    UNION {{[i \in 1..n |-> SelectionPool[f[i]]] :
               f \in {g \in [1..n -> DOMAIN SelectionPool] :
                         \A i, j \in 1..n : i # j => g[i] # g[j]}} :
           n \in 0..MaxAvailable}

SelectionTargets == {0, 1000000, 12000000, 26000000, 50000000}
SelectionTokens ==
    {EmptyTokens, Token1 :> 0, Token1 :> 100, Token1 :> 1500,
     (Token1 :> 100) @@ (Token2 :> 600)}

\* select_utxos on every list, target, token demand and strategy; the
\* strategy is set again before the next selection
NextSelect ==
    \/ \E s \in Strategies : set_utxo_selection_strategy(s)
    \/ /\ last.op # "select_utxos"
       /\ \E a \in AvailableLists, n \in SelectionTargets, t \in SelectionTokens :
             select_utxos_call(a, n, t)

SpecSelect == Init /\ [][NextSelect]_vars

\* sizes a caller may pass to estimate_fee: small ones and the ones at
\* which the size or the fee passes 2^64
SizeArguments == {U64Zero, U64Of(2), U64Of(128), U64Max}

\* transactions handed to calculate_fee: up to MaxFeeItems inputs and
\* outputs, without metadata or with a document of the model
FeeTransactions ==
    {[EmptyTransaction EXCEPT
         !.inputs = [k \in 1..i |-> [tx_hash |-> "", output_index |-> 0]],
         !.outputs = [k \in 1..o |->
                         [address |-> "", amount_lovelace |-> 0,
                          native_tokens |-> EmptyTokens]],
         !.metadata = m] :
        i \in 0..MaxFeeItems, o \in 0..MaxFeeItems,
        m \in {NoMetadata} \cup MetadataDocs}

\* fee computation under both parameter sets
NextFee ==
    \/ \E p \in ParameterChoices : update_protocol_parameters(p)
    \/ \E i \in SizeArguments, o \in SizeArguments, m \in SizeArguments :
          estimate_fee_call(i, o, m)
    \/ \E t \in FeeTransactions : calculate_fee_call(t)

SpecFee == Init /\ [][NextFee]_vars

\* addresses of a request, the empty string among them
IntentAddresses == {"", "addrA"}
SignerLists == {<<>>, <<"pk1", "pk2">>}
RequiredSignatures == {0, 2}
MultisigOutput ==
    [address |-> "addrB", amount_lovelace |-> 1000000, native_tokens |-> EmptyTokens]

\* requests that are and that are not well formed
NextIntent ==
    \/ initialize
    \/ \E a \in IntentAddresses, b \in IntentAddresses, n \in {1000000, 19000000} :
          create_payment_transaction(a, b, n, FALSE)
    \/ \E a \in IntentAddresses, b \in IntentAddresses :
          create_token_transfer(a, b, Token1 :> 100, FALSE)
    \/ \E a \in IntentAddresses, m \in MetadataDocs :
          create_metadata_transaction(a, m, FALSE)
    \/ \E a \in IntentAddresses, b \in IntentAddresses :
          create_smart_contract_transaction(a, b, "record", <<"p1">>, 1000000, FALSE)
    \/ \E s \in SignerLists, k \in RequiredSignatures :
          create_multisig_transaction(s, k, MultisigOutput)

SpecIntent == Init /\ [][NextIntent]_vars

\* building, signing and attaching witnesses made elsewhere
NextSign ==
    \/ initialize
    \/ shutdown
    \/ \E a \in Addresses, n \in {1000000, 19000000} :
          create_payment_transaction(a, "addrB", n, TRUE)
    \/ \E id \in TxIds, k \in SigningKeys : sign_transaction(id, k)
    \/ \E id \in TxIds, w \in RawWitnesses : add_witness(id, w)

SpecSign == Init /\ [][NextSign]_vars

\* public keys that sign: two signers of the request and a stranger
PublicKeys == {"pk1", "pk2", "pk3"}
MultisigSignatures == {"sig"}

\* a multisig request, then the transaction that pays its output is built,
\* signed and submitted
NextMultisig ==
    \/ initialize
    \/ /\ "multisig" \notin DOMAIN held
       /\ create_multisig_transaction(<<"pk1", "pk2">>, 2, MultisigOutput)
    \/ /\ "multisig" \in DOMAIN held
       /\ create_payment_transaction("addrA", held["multisig"].output.address,
                                     held["multisig"].output.amount_lovelace, TRUE)
    \/ \E id \in TxIds, k \in SigningKeys : sign_transaction(id, k)
    \/ \E id \in TxIds, a \in LedgerAnswers : submit_transaction(id, a)
    \/ \E id \in TxIds, g \in MultisigSignatures, k \in PublicKeys :
          add_multisig_signature(id, g, k)

SpecMultisig == Init /\ [][NextMultisig]_vars

\* a transaction is built, then the threads call in any interleaving
NextThreads ==
    \/ last.op # "threads" /\ initialize
    \/ last.op # "threads" /\ create_payment_transaction("addrA", "addrB", 1000000, TRUE)
    \/ \E t \in Threads, id \in TxIds : submit_transaction_store(t, id)
    \/ \E t \in Threads, a \in LedgerAnswers : submit_transaction_finish(t, a)
    \/ \E t \in Threads, id \in TxIds : get_transaction_status_in(t, id)
    \/ \E t \in Threads, id \in TxIds : get_transaction(t, id)
    \/ \E t \in Threads, id \in TxIds : cancel_transaction_in(t, id)
    \/ \E d \in TickSteps : Tick(d)

SpecThreads == Init /\ [][NextThreads]_vars

\* the threads refresh and read the UTXO store in any interleaving
NextUtxoThreads ==
    \/ last.op # "utxo_threads" /\ initialize
    \/ \E t \in Threads, a \in Addresses : refresh_utxos_lock(t, a)
    \/ \E t \in Threads : refresh_utxos_write(t)
    \/ \E t \in Threads : refresh_utxos_unlock(t)
    \/ \E t \in Threads, a \in Addresses,
          op \in {"get_utxos", "get_wallet_balance"} : reader_call(t, op, a)
    \/ \E t \in Threads : get_utxos_return(t)
    \/ \E t \in Threads : get_wallet_balance_return(t)

SpecUtxoThreads == Init /\ [][NextUtxoThreads]_vars

\* the public operations called by the threads in any interleaving
NextLocks ==
    \/ \E t \in Threads, op \in PublicOperations : operation_call(t, op)
    \/ \E t \in Threads : mutex_lock(t)
    \/ \E t \in Threads : mutex_unlock(t)
    \/ \E t \in Threads : object_access(t)

SpecLocks == Init /\ [][NextLocks]_vars

Timeouts == {0, 2, 33}
SleepSteps == {1, 20}

\* a caller that builds and submits and then blocks in one
\* wait_for_confirmation call, up to the return of that call
NoWaitYet == last.op # "wait_for_confirmation"

NextWait ==
    \/ NoWaitYet /\ initialize
    \/ NoWaitYet /\ shutdown
    \/ NoWaitYet /\ \E id \in TxIds : get_transaction_status(id)
    \/ NoWaitYet /\ create_payment_transaction("addrA", "addrB", 1000000, TRUE)
    \/ NoWaitYet /\ \E id \in TxIds, r \in LedgerAnswers : submit_transaction(id, r)
    \/ NoWaitYet /\ \E d \in TickSteps : Tick(d)
    \/ NoWaitYet /\ \E c \in BOOLEAN : set_confirmation_callback(c)
    \/ NoWaitYet /\ \E id \in TxIds, t \in Timeouts : wait_for_confirmation(id, t)
    \/ wait_poll
    \/ \E d \in SleepSteps : wait_sleep(d)

SpecWait == Init /\ [][NextWait]_vars

\* the same caller when the thread is scheduled and its sleep ends
SpecWaitFair ==
    /\ SpecWait
    /\ WF_vars(wait_poll)
    /\ WF_vars(\E d \in SleepSteps : wait_sleep(d))


(***************************************************************************)
(* Properties                                                              *)
(***************************************************************************)
BuilderCalls ==
    {"create_payment_transaction", "create_token_transfer",
     "create_metadata_transaction", "create_smart_contract_transaction"}

\* the last call was a builder operation that returned a transaction
BuilderReturned == last.op \in BuilderCalls /\ last.ret_tx # <<>>

\* the sums of the uint64 amounts as natural numbers: a wrapped amount is
\* at least 2^63 and exceeds every sum of inputs of the model
LovelaceConserved(tx) ==
    /\ \A i \in DOMAIN tx.outputs : ~Wrapped(tx.outputs[i].amount_lovelace)
    /\ ~Wrapped(tx.fee)
    /\ SumLovelace(InputUtxos(tx)) = SumLovelace(tx.outputs) + tx.fee

TokensConserved(tx) ==
    \A t \in TokenKeys(InputUtxos(tx)) \cup TokenKeys(tx.outputs) :
        SumToken(InputUtxos(tx), t) = SumToken(tx.outputs, t)

\* what get_transaction_status would return for tx_id in this state
ReportedStatus(tx_id) ==
    IF tx_id \in DOMAIN transactions_ THEN Polled(tx_id).status ELSE "FAILED"

LegalTransitions ==
    {<<"PENDING", "SUBMITTED">>, <<"PENDING", "CANCELLED">>,
     <<"SUBMITTED", "CONFIRMED">>, <<"SUBMITTED", "FAILED">>}

TerminalStatuses == {"CONFIRMED", "FAILED", "CANCELLED"}

\* C1: every transaction a builder operation returns has inputs summing to
\* its outputs plus its fee (stated as claimed; the builder violates it)
C1_LovelaceConservation ==
    BuilderReturned => LovelaceConserved(last.ret_tx[1])

\* C2: in every transaction a builder operation returns, every asset of
\* its inputs or outputs has equal totals over the inputs and over the
\* outputs (stated as claimed; the builder violates it)
C2_TokenConservation ==
    BuilderReturned => TokensConserved(last.ret_tx[1])

\* C3: the stored status of a transaction changes only along the four
\* legal transitions (stated as claimed; submitting again violates it)
C3_LifecycleLegality ==
    [][\A id \in TxIds :
          (/\ id \in DOMAIN transactions_
           /\ id \in DOMAIN transactions_'
           /\ transactions_'[id].status # transactions_[id].status)
          => <<transactions_[id].status, transactions_'[id].status>> \in LegalTransitions]_vars

\* C4: a stored record that is Confirmed, Failed or Cancelled is left
\* unchanged by every further call on it (stated as claimed; submitting
\* again and add_multisig_signature violate it)
C4_TerminalImmutable ==
    [][\A id \in TxIds :
          (/\ id \in DOMAIN transactions_
           /\ id \in DOMAIN transactions_'
           /\ transactions_[id].status \in TerminalStatuses)
          => transactions_'[id] = transactions_[id]]_vars

\* C5: submit_transaction hands a transaction to the ledger only if it is
\* Pending and carries at least one witness (stated as claimed; the code
\* checks neither)
C5_SubmitRequiresWitness ==
    (last.op = "submit_transaction" /\ last.sent)
    => /\ held[last.tx_id].status = "PENDING"
       /\ Len(held[last.tx_id].witnesses) >= 1

\* C6: after submit_transaction(T) returned, a non-empty result is T.tx_id
\* and the stored record is Submitted with submitted_timestamp set (a poll
\* reports Submitted or Confirmed); after an empty result a poll reports
\* Failed
C6_SubmitResult ==
    last.op = "submit_transaction"
    => IF last.ret_id # ""
       THEN /\ last.ret_id = last.tx_id
            /\ last.tx_id \in DOMAIN transactions_
            /\ transactions_[last.tx_id].status = "SUBMITTED"
            /\ transactions_[last.tx_id].submitted_timestamp # 0
            /\ ReportedStatus(last.tx_id) \in {"SUBMITTED", "CONFIRMED"}
       ELSE ReportedStatus(last.tx_id) = "FAILED"

C6_Witness ==
    /\ last.op = "submit_transaction"
    /\ last.ret_id = "tx1"
    /\ ReportedStatus("tx1") = "CONFIRMED"

\* C7: when the ledger declines a submission with reason r the stored
\* transaction is Failed with error_message r (stated as claimed; the code
\* stores a fixed text)
C7_ErrorVerbatim ==
    (last.op = "submit_transaction" /\ last.sent /\ last.reason # "accepted")
    => /\ transactions_[last.tx_id].status = "FAILED"
       /\ transactions_[last.tx_id].error_message = last.reason

\* C8: cancel_transaction succeeds exactly when the stored transaction is
\* Pending, and then sets it to Cancelled; otherwise it returns failure
\* and changes nothing
C8_CancelOnlyPending ==
    [][\A id \in TxIds :
          cancel_transaction(id)
          => IF id \in DOMAIN transactions_ /\ transactions_[id].status = "PENDING"
             THEN /\ last'.ret_ok
                  /\ transactions_' = [transactions_ EXCEPT ![id].status = "CANCELLED"]
             ELSE /\ ~last'.ret_ok
                  /\ transactions_' = transactions_
                  /\ stats_' = stats_
                  /\ held' = held]_vars

C8_Witness ==
    /\ last.op = "cancel_transaction"
    /\ ~last.ret_ok
    /\ last.tx_id \in DOMAIN transactions_
    /\ transactions_[last.tx_id].status = "FAILED"
    /\ transactions_[last.tx_id].error_message = SubmitFailedMessage

\* C9: cancel_transaction on a transaction a builder returned and nobody
\* submitted succeeds, and get_transaction_status then reports Cancelled
\* (stated as claimed; the built transaction is not stored, so it fails)
C9_CancelFreshlyBuilt ==
    (/\ last.op = "cancel_transaction"
     /\ last.tx_id \in DOMAIN held
     /\ held[last.tx_id].status = "PENDING"
     /\ stats_.total_transactions = 0
     /\ stats_.failed_transactions = 0)
    => /\ last.ret_ok
       /\ ReportedStatus(last.tx_id) = "CANCELLED"

\* C10: get_transaction_status on a Submitted transaction makes it
\* Confirmed with confirmed_timestamp set exactly when check_confirmation
\* reports it final; otherwise it returns Submitted and leaves the record
\* unchanged
C10_PollConfirms ==
    [][\A id \in TxIds :
          (/\ get_transaction_status(id)
           /\ id \in DOMAIN transactions_
           /\ transactions_[id].status = "SUBMITTED")
          => IF check_confirmation(id)
             THEN /\ last'.ret_status = "CONFIRMED"
                  /\ transactions_' =
                        [transactions_ EXCEPT ![id].status = "CONFIRMED",
                                              ![id].confirmed_timestamp = now]
                  /\ transactions_'[id].confirmed_timestamp # 0
             ELSE /\ last'.ret_status = "SUBMITTED"
                  /\ transactions_' = transactions_]_vars

C10_Witness ==
    /\ last.op = "get_transaction_status"
    /\ last.ret_status = "CONFIRMED"
    /\ transactions_[last.tx_id].confirmed_timestamp = now
    /\ \E other \in DOMAIN transactions_ :
          /\ transactions_[other].status = "SUBMITTED"
          /\ ~check_confirmation(other)

\* C11: when wait_for_confirmation returns because the timeout elapsed,
\* the stored map is what it was when the call began and the transaction
\* waited for is still Submitted, without an error message
C11_TimeoutLeavesSubmitted ==
    (last.op = "wait_for_confirmation" /\ last.pc = "done" /\ last.outcome = "timeout")
    => /\ transactions_ = last.before
       /\ last.tx_id \in DOMAIN transactions_
       /\ transactions_[last.tx_id].status = "SUBMITTED"
       /\ transactions_[last.tx_id].error_message = ""

C11_Witness ==
    /\ last.op = "wait_for_confirmation"
    /\ last.pc = "done"
    /\ last.outcome = "timeout"
    /\ last.timeout_seconds = 2
    /\ now - last.start_time >= 2
    /\ transactions_[last.tx_id].status = "SUBMITTED"

\* C12: a poll of wait_for_confirmation made when the elapsed time has
\* reached the timeout is the last one, whatever the tx_id and its status,
\* and every call that is scheduled and whose sleeps end returns
C12_WaitReturns ==
    /\ [][(wait_poll /\ now - last.start_time >= last.timeout_seconds)
          => last'.pc = "done"]_vars
    /\ (Waiting ~> (last.op = "wait_for_confirmation" /\ last.pc = "done"))

C12_Witness ==
    /\ last.op = "wait_for_confirmation"
    /\ last.pc = "done"
    /\ last.outcome = "confirmed"
    /\ last.timeout_seconds = 33
    /\ now - last.start_time = ConfirmDelay + 1
    /\ last.before[last.tx_id].status = "SUBMITTED"

\* the last call was select_utxos
Selected == last.op = "select_utxos"

\* the sufficiency condition of a selection, on the sums as numbers
Covers(utxos, target_amount, required_tokens) ==
    /\ SumLovelace(utxos) >= target_amount
    /\ \A k \in DOMAIN required_tokens : SumToken(utxos, k) >= required_tokens[k]

WithoutLast(utxos) == SubSeq(utxos, 1, Len(utxos) - 1)

\* C13: under every strategy, a result of select_utxos shorter than the
\* available list covers the target amount and every required token
C13_SelectorSufficiency ==
    (Selected /\ Len(last.result) < Len(last.available_utxos))
    => Covers(last.result, last.target_amount, last.required_tokens)

C13_Witness ==
    /\ Selected
    /\ last.strategy = "RANDOM"
    /\ Len(last.available_utxos) = 3
    /\ Len(last.result) = 2
    /\ last.required_tokens = Token1 :> 1500
    /\ last.target_amount = 12000000

C15_SelectorExhaustion ==
    Selected
    => /\ (last.result = <<>>) <=> (last.available_utxos = <<>>)
       /\ ~Covers(last.available_utxos, last.target_amount, last.required_tokens)
          => /\ Len(last.result) = Len(last.available_utxos)
             /\ \A u \in {last.available_utxos[i] : i \in DOMAIN last.available_utxos} :
                   \E i \in DOMAIN last.result : last.result[i] = u

C15_Witness ==
    /\ Selected
    /\ last.target_amount = 0
    /\ last.required_tokens = EmptyTokens
    /\ Len(last.available_utxos) = 3
    /\ Len(last.result) = 1

\* the inputs of tx pay for its first output and its fee, and hold every
\* token amount its first output carries
Funded(tx) ==
    /\ tx.outputs # <<>>
    /\ ~Wrapped(tx.outputs[1].amount_lovelace)
    /\ SumLovelace(InputUtxos(tx)) >= tx.outputs[1].amount_lovelace + tx.fee
    /\ \A t \in DOMAIN tx.outputs[1].native_tokens :
          SumToken(InputUtxos(tx), t) >= tx.outputs[1].native_tokens[t]

\* C16: a builder operation returns no transaction when the UTXOs it
\* selected do not cover the value sent plus the fee or a token amount
\* sent (stated as claimed; the builders return the transaction anyway)
C16_FailsWhenUnfunded ==
    BuilderReturned => Funded(last.ret_tx[1])

\* C17: no builder operation returns an output whose lovelace or token
\* amount is the result of an unsigned subtraction that wrapped around
\* (stated as claimed; the change of an unfunded payment wraps)
C17_NoWrappedAmount ==
    BuilderReturned
    => \A i \in DOMAIN last.ret_tx[1].outputs :
          /\ ~Wrapped(last.ret_tx[1].outputs[i].amount_lovelace)
          /\ \A t \in DOMAIN last.ret_tx[1].outputs[i].native_tokens :
                ~Wrapped(last.ret_tx[1].outputs[i].native_tokens[t])

\* C18: for fixed protocol parameters estimate_fee does not decrease when
\* none of its three arguments decreases, on all 64-bit arguments (stated
\* as claimed; a size that wraps around violates it)
C18_FeeMonotone ==
    (/\ last.op = "estimate_fee"
     /\ \A k \in 1..3 : U64LessEq(last.prev_args[k], last.args[k]))
    => U64LessEq(last.prev_fee, last.fee)

\* C19: calculate_fee(tx) is estimate_fee of the number of inputs, the
\* number of outputs and the length of the metadata document (0 without
\* metadata), and under the default parameters it is above zero
C19_CalculateIsEstimate ==
    last.op = "calculate_fee"
    => LET tx == last.transaction
           size == IF tx.metadata.present
                   THEN JsonLength(tx.metadata.json_metadata) ELSE 0
       IN  /\ last.fee = estimate_fee_u64(U64Of(Len(tx.inputs)),
                                          U64Of(Len(tx.outputs)), U64Of(size))
           /\ last.fee = U64Of(estimate_fee(Len(tx.inputs), Len(tx.outputs), size))
           /\ fee_params_ = DefaultFeeParameters => U64Less(U64Zero, last.fee)

C19_Witness ==
    /\ last.op = "calculate_fee"
    /\ fee_params_ = DefaultFeeParameters
    /\ Len(last.transaction.inputs) = 2
    /\ Len(last.transaction.outputs) = 2
    /\ last.transaction.metadata.present
    /\ last.transaction.metadata.json_metadata = "temp=21"
    /\ last.fee = U64Of(DefaultMinFeeA + DefaultMinFeeB * 907)

C21_RejectsMalformedIntent ==
    /\ BuilderReturned
       => /\ \A i \in DOMAIN last.ret_tx[1].inputs :
                last.ret_tx[1].inputs[i].utxo_info.address # ""
          /\ \A i \in DOMAIN last.ret_tx[1].outputs :
                last.ret_tx[1].outputs[i].address # ""
    /\ (/\ last.op = "create_multisig_transaction"
        /\ last.required_signatures > 0
        /\ last.signing_addresses = <<>>)
       => ~last.ret_ok

\* the TransactionType a builder operation is asked for
IntentOf(op) ==
    CASE op = "create_payment_transaction" -> "PAYMENT"
      [] op = "create_token_transfer" -> "TOKEN_TRANSFER"
      [] op = "create_metadata_transaction" -> "METADATA"
      [] op = "create_smart_contract_transaction" -> "SMART_CONTRACT"

\* C22: every transaction a builder operation returns has status PENDING,
\* the type of the requested intent, no witness, at least one input and at
\* least one output
C22_FreshlyBuilt ==
    BuilderReturned
    => /\ last.ret_tx[1].status = "PENDING"
       /\ last.ret_tx[1].type = IntentOf(last.op)
       /\ last.ret_tx[1].witnesses = <<>>
       /\ Len(last.ret_tx[1].inputs) >= 1
       /\ Len(last.ret_tx[1].outputs) >= 1

C22_Witness ==
    /\ BuilderReturned
    /\ last.op = "create_metadata_transaction"
    /\ last.ret_tx[1].type = "METADATA"
    /\ Len(last.ret_tx[1].inputs) = 1
    /\ Len(last.ret_tx[1].outputs) = 1

\* every field of a transaction but its witnesses and its signed encoding
Unsigned(tx) == [tx EXCEPT !.witnesses = <<>>, !.signed_cbor = <<>>]

\* C23: a sign_transaction that signs appends exactly one witness and
\* records a non-empty signed encoding, add_witness appends exactly the
\* given witness; both keep the earlier witnesses in order and change no
\* other field of the transaction, and no other transaction
C23_SigningFrame ==
    [][\A id \in TxIds :
          /\ (last'.op = "sign_transaction" /\ last'.tx_id = id /\ last'.ret_ok)
             => /\ Len(held'[id].witnesses) = Len(held[id].witnesses) + 1
                /\ SubSeq(held'[id].witnesses, 1, Len(held[id].witnesses))
                      = held[id].witnesses
                /\ held'[id].signed_cbor # <<>>
                /\ Unsigned(held'[id]) = Unsigned(held[id])
                /\ \A other \in DOMAIN held \ {id} : held'[other] = held[other]
          /\ (last'.op = "sign_transaction" /\ last'.tx_id = id /\ ~last'.ret_ok)
             => held' = held
          /\ \A w \in RawWitnesses :
                add_witness(id, w)
                => /\ held'[id].witnesses = Append(held[id].witnesses, <<w>>)
                   /\ held'[id].signed_cbor = held[id].signed_cbor
                   /\ Unsigned(held'[id]) = Unsigned(held[id])
                   /\ \A other \in DOMAIN held \ {id} : held'[other] = held[other]
      ]_vars

\* a signature is put behind a witness that was attached before it
C23_Witness ==
    /\ last.op = "sign_transaction"
    /\ last.ret_ok
    /\ Len(held[last.tx_id].witnesses) = 2
    /\ Len(held[last.tx_id].witnesses[1]) = 1
    /\ held[last.tx_id].signed_cbor # <<>>

\* the signer a witness declares: the public key behind the ":" of a
\* signature of add_multisig_signature
DeclaredSigners(witnesses) ==
    {witnesses[i][3] : i \in {j \in DOMAIN witnesses :
                                 Len(witnesses[j]) = 3 /\ witnesses[j][2] = ":"}}

\* the distinct signers of a transaction that are members of the request
CountedSigners(tx, request) ==
    DeclaredSigners(tx.witnesses)
      \cap {request.signing_addresses[i] : i \in DOMAIN request.signing_addresses}

\* C24: a transaction of a multisig request for k signatures is stored as
\* submitted only when it holds witnesses of at least k distinct signers
\* that are members of signing_addresses (stated as claimed; the code
\* counts no signatures)
C24_SubmittedHasQuorum ==
    "multisig" \in DOMAIN held
    => \A id \in TxIds \cap DOMAIN transactions_ :
          transactions_[id].status = "SUBMITTED"
          => Cardinality(CountedSigners(transactions_[id], held["multisig"]))
                >= held["multisig"].required_signatures

\* C25: the counters of get_statistics count what happened: as the claim
\* has it, confirmed_transactions is the number of transactions that became
\* CONFIRMED, so it is at least the number of records stored as CONFIRMED
\* (get_statistics returns stats_; nothing in the model resets it)
C25_ConfirmedCounted ==
    Cardinality({id \in DOMAIN transactions_ :
                    transactions_[id].status = "CONFIRMED"})
       <= stats_.confirmed_transactions

\* C26: under every interleaving of submit_transaction,
\* get_transaction_status, cancel_transaction and get_transaction on one
\* transaction, the stored status changes only along the four legal
\* transitions, and a record a caller saw as CONFIRMED or FAILED is never
\* seen in another status afterwards (stated as claimed; submit_transaction
\* overwrites the record in two separate critical sections)
C26_InterleavedLegality ==
    [][\A id \in TxIds :
          /\ (/\ id \in DOMAIN transactions_
              /\ id \in DOMAIN transactions_'
              /\ transactions_'[id].status # transactions_[id].status)
             => <<transactions_[id].status, transactions_'[id].status>>
                   \in LegalTransitions
          /\ (/\ last.op = "threads"
              /\ last.seen[id] \in {"CONFIRMED", "FAILED"})
             => last'.seen[id] = last.seen[id]]_vars

C28_FeeOfActualShape ==
    (BuilderReturned /\ ~last.ret_tx[1].metadata.present)
    => last.ret_tx[1].fee
          = estimate_fee(Len(last.ret_tx[1].inputs), Len(last.ret_tx[1].outputs), 0)

\* C29: a payment whose inputs cover the amount and the fee either has a
\* second output, to the spender, of exactly inputs - amount - fee and not
\* below min_utxo, or has no second output and a fee that took the
\* remainder up, fee = inputs - amount (stated as claimed; the remainder
\* the builder leaves out goes nowhere)
C29_ChangeOrFee ==
    (/\ BuilderReturned
     /\ last.op = "create_payment_transaction"
     /\ SumLovelace(InputUtxos(last.ret_tx[1]))
           >= last.ret_tx[1].outputs[1].amount_lovelace + last.ret_tx[1].fee)
    => LET tx == last.ret_tx[1]
           remainder == SumLovelace(InputUtxos(tx)) - tx.outputs[1].amount_lovelace
       IN  \/ /\ Len(tx.outputs) = 2
              /\ tx.outputs[2].address = tx.inputs[1].utxo_info.address
              /\ tx.outputs[2].amount_lovelace = remainder - tx.fee
              /\ tx.outputs[2].amount_lovelace >= fee_params_.min_utxo
           \/ /\ Len(tx.outputs) = 1
              /\ tx.fee = remainder

\* the lists that hold the same UTXOs as a list, in every order
Reorderings(available_utxos) ==
    {[i \in DOMAIN available_utxos |-> available_utxos[p[i]]] :
        p \in Permutations_(Len(available_utxos))}

\* C30: under LARGEST_FIRST and SMALLEST_FIRST the result of select_utxos
\* is determined by the UTXOs that are available, the target and the
\* required tokens: the available list in any other order gives the same
\* sequence (stated as claimed; UTXOs of equal amount come out in an order
\* the sort leaves open)
C30_SelectionDeterministic ==
    (last.op = "select_utxos" /\ last.strategy \in {"LARGEST_FIRST", "SMALLEST_FIRST"})
    => \A reordered \in Reorderings(last.available_utxos) :
          select_utxos_impl(reordered, last.target_amount,
                            last.required_tokens, last.strategy)
             = {last.result}

\* C31: for every available list, target amount and required-token map,
\* select_utxos under OPTIMAL_FEE returns what it returns under
\* LARGEST_FIRST: the sequences the one strategy can return are those the
\* other can return, and the result is one of them
C31_OptimalIsLargestFirst ==
    (Selected /\ last.strategy = "OPTIMAL_FEE")
    => /\ select_utxos_impl(last.available_utxos, last.target_amount,
                            last.required_tokens, "OPTIMAL_FEE")
             = select_utxos_impl(last.available_utxos, last.target_amount,
                                 last.required_tokens, "LARGEST_FIRST")
       /\ last.result \in select_utxos_impl(last.available_utxos, last.target_amount,
                                            last.required_tokens, "LARGEST_FIRST")

C31_Witness ==
    /\ Selected
    /\ last.strategy = "OPTIMAL_FEE"
    /\ Len(last.available_utxos) = 3
    /\ Len(last.result) = 2
    /\ last.result[1].amount_lovelace > last.result[2].amount_lovelace
    /\ last.available_utxos[1].amount_lovelace < last.available_utxos[2].amount_lovelace

\* the number a 64-bit value below 2^16 stands for
SmallValue(a) == a[1]

IsSmall(a) == a[2] = 0 /\ a[3] = 0 /\ a[4] = 0

BuilderFrame ==
    last'.op \in BuilderCalls
    => /\ transactions_' = transactions_
       /\ ~initialized_ => address_utxos_' = address_utxos_
       /\ \A a \in Addresses :
             \/ UtxosOrEmpty(address_utxos_', a) = UtxosOrEmpty(address_utxos_, a)
             \/ /\ UtxosOrEmpty(address_utxos_, a) = <<>>
                /\ last'.ret_tx # <<>>
                /\ last'.ret_tx[1].inputs[1].utxo_info.address = a
                /\ address_utxos_'[a] = create_mock_utxos(a)
       /\ last'.ret_tx # <<>>
          => UtxosOrEmpty(address_utxos_',
                          last'.ret_tx[1].inputs[1].utxo_info.address) # <<>>

\* a builder call that follows the same call with the same arguments
SameBuildAgain ==
    /\ last.op \in BuilderCalls
    /\ last'.op = last.op
    /\ last.ret_tx # <<>>
    /\ last'.ret_tx # <<>>
    /\ last'.ret_tx[1].inputs[1].utxo_info.address
          = last.ret_tx[1].inputs[1].utxo_info.address
    /\ last'.ret_tx[1].outputs[1] = last.ret_tx[1].outputs[1]
    /\ last'.ret_tx[1].metadata = last.ret_tx[1].metadata

C35_UnknownIsFailed ==
    [][/\ \A id \in TxIds :
             (get_transaction_status(id) /\ id \notin DOMAIN transactions_)
             => /\ last'.ret_status = "FAILED"
                /\ transactions_' = transactions_
       /\ (wait_poll /\ last.tx_id \notin DOMAIN transactions_)
          => /\ last'.pc = "done"
             /\ last'.outcome = "failed"
             /\ now' = last.start_time
             /\ transactions_' = transactions_
             /\ last'.callbacks = IF confirmation_callback_
                                  THEN <<<<last.tx_id, FALSE>>>>
                                  ELSE <<>>
      ]_vars

\* the wait for a transaction that was built and never submitted is over
C35_Witness ==
    /\ last.op = "wait_for_confirmation"
    /\ last.pc = "done"
    /\ last.tx_id \in DOMAIN held
    /\ last.tx_id \notin DOMAIN transactions_
    /\ initialized_
    /\ last.timeout_seconds = 33
    /\ now = last.start_time
    /\ last.callbacks = <<<<last.tx_id, FALSE>>>>

\* C36: a wait_for_confirmation call invokes the confirmation callback at
\* most once: with (tx_id, true) exactly when it ended on CONFIRMED, with
\* (tx_id, false) exactly when it ended on FAILED, not at all when it ended
\* by timeout, while it runs, or when no callback is set
C36_CallbackOnce ==
    last.op = "wait_for_confirmation"
    => /\ Len(last.callbacks) <= 1
       /\ last.callbacks = <<<<last.tx_id, TRUE>>>>
          <=> (confirmation_callback_ /\ last.pc = "done" /\ last.outcome = "confirmed")
       /\ last.callbacks = <<<<last.tx_id, FALSE>>>>
          <=> (confirmation_callback_ /\ last.pc = "done" /\ last.outcome = "failed")
       /\ (last.pc # "done" \/ last.outcome = "timeout") => last.callbacks = <<>>

\* a wait that slept until the transaction was confirmed told the callback
C36_Witness ==
    /\ last.op = "wait_for_confirmation"
    /\ last.pc = "done"
    /\ last.outcome = "confirmed"
    /\ now > last.start_time
    /\ last.callbacks = <<<<last.tx_id, TRUE>>>>

\* a thread that is in an operation can take its next step
CanStep(t) ==
    Head(last.rest[t])[1] = "lock" => HeldBy(last, Head(last.rest[t])[2]) = {}

\* the mutexes of the manager that a thread holds, in the order it took them
ManagerHolds(t) == SelectSeq(last.holds[t], LAMBDA m : m \in ManagerMutexes)

\* the thread is about to take a mutex
Acquiring(t) == last.rest[t] # <<>> /\ Head(last.rest[t])[1] = "lock"

\* some thread that is in an operation can step, and a thread that is in no
\* operation holds no mutex
NoDeadlock ==
    /\ (\E t \in Threads : last.rest[t] # <<>>)
       => \E t \in Threads : last.rest[t] # <<>> /\ CanStep(t)
    /\ \A t \in Threads : last.rest[t] = <<>> => last.holds[t] = <<>>

\* C37 as the specification states it, for every mutex that the operations
\* take: two mutexes are held together only as transactions_mutex_ then
\* stats_mutex_, and no mutex is taken while utxos_mutex_ is held
C37_NoDeadlockAnyMutex ==
    last.op = "locks"
    => /\ NoDeadlock
       /\ \A t \in Threads :
             /\ last.holds[t] \in {<<>>, <<"transactions_mutex_">>, <<"utxos_mutex_">>,
                                   <<"stats_mutex_">>, <<"log_mutex_">>,
                                   <<"transactions_mutex_", "stats_mutex_">>}
             /\ Acquiring(t) => \A i \in DOMAIN last.holds[t] : last.holds[t][i] # "utxos_mutex_"

\* C37: no interleaving of the public operations deadlocks: while a thread
\* is in an operation some thread can step; two mutexes of the manager are
\* held together only as transactions_mutex_ then stats_mutex_; no mutex of
\* the manager is taken while utxos_mutex_ is held; the logger's log_mutex_
\* is the mutex taken last and nothing is taken while it is held; a thread
\* that is in no operation holds no mutex
C37_NoDeadlock ==
    last.op = "locks"
    => /\ NoDeadlock
       /\ \A t \in Threads :
             /\ ManagerHolds(t) \in {<<>>, <<"transactions_mutex_">>, <<"utxos_mutex_">>,
                                     <<"stats_mutex_">>,
                                     <<"transactions_mutex_", "stats_mutex_">>}
             /\ (Acquiring(t) /\ Head(last.rest[t])[2] \in ManagerMutexes)
                => \A i \in DOMAIN last.holds[t] : last.holds[t][i] # "utxos_mutex_"
             /\ Acquiring(t)
                => \A i \in DOMAIN last.holds[t] : last.holds[t][i] # "log_mutex_"
             /\ \A i \in DOMAIN last.holds[t] :
                   last.holds[t][i] = "log_mutex_" => i = Len(last.holds[t])

\* one thread holds transactions_mutex_ and waits for stats_mutex_, which
\* the other thread holds together with log_mutex_
C37_Witness ==
    /\ last.op = "locks"
    /\ \E t \in Threads, u \in Threads :
          /\ last.holds[t] = <<"transactions_mutex_">>
          /\ Acquiring(t)
          /\ Head(last.rest[t]) = Lock("stats_mutex_")
          /\ last.holds[u] = <<"stats_mutex_", "log_mutex_">>
          /\ last.call[u] = "submit_transaction"

\* the mutex that is there for an object, Impl lines 21-27 and 35
OwnMutex(object) ==
    CASE object = "address_utxos_" -> "utxos_mutex_"
      [] object = "transactions_" -> "transactions_mutex_"
      [] object = "stats_" -> "stats_mutex_"

\* C38: every read or write of the UTXO store, of the transaction table and
\* of the statistics is made by a thread that holds the object's own mutex
C38_OwnMutexHeld ==
    (last.op = "locks" /\ last.access # <<>>)
    => \E i \in DOMAIN last.access[1].holds :
          last.access[1].holds[i] = OwnMutex(last.access[1].object)

\* C39: every stored transaction that is Submitted, Confirmed or Failed
\* has submitted_timestamp set and not before created_timestamp, and every
\* stored transaction that is Confirmed has confirmed_timestamp set and not
\* before submitted_timestamp
C39_TimestampOrder ==
    \A id \in DOMAIN transactions_ :
       /\ transactions_[id].status \in {"SUBMITTED", "CONFIRMED", "FAILED"}
          => /\ transactions_[id].submitted_timestamp # 0
             /\ transactions_[id].created_timestamp # 0
             /\ transactions_[id].submitted_timestamp >= transactions_[id].created_timestamp
       /\ transactions_[id].status = "CONFIRMED"
          => /\ transactions_[id].confirmed_timestamp # 0
             /\ transactions_[id].confirmed_timestamp >= transactions_[id].submitted_timestamp

\* a transaction built, submitted later and confirmed later still, next to
\* one that the ledger declined
C39_Witness ==
    \E id \in DOMAIN transactions_, other \in DOMAIN transactions_ :
       /\ transactions_[id].status = "CONFIRMED"
       /\ transactions_[id].created_timestamp < transactions_[id].submitted_timestamp
       /\ transactions_[id].submitted_timestamp < transactions_[id].confirmed_timestamp
       /\ transactions_[other].status = "FAILED"
       /\ transactions_[other].submitted_timestamp # 0

=============================================================================
